---------------------------- MODULE Spec2Model ----------------------------
(***************************************************************************)
(* A model of the Medusa phi_s kernels: the PhisSignal functor             *)
(* (medusa/phi_s/phis_signal/PhisSignal.h) and the CubicSpline efficiency  *)
(* model (medusa/generic/CubicSpline.h).                                   *)
(*                                                                         *)
(* A double is modelled as a fixed-point number: the integer x stands for  *)
(* the real x / One.  Every product is rounded towards zero to a multiple  *)
(* of 1 / One (the model's counterpart of the rounding of a floating-point *)
(* product), and NaN is a value of its own that every arithmetic operation *)
(* propagates and every comparison rejects, as IEEE 754 does.  Infinities  *)
(* are not modelled: the inputs are drawn from ranges where no operation   *)
(* overflows.                                                              *)
(***************************************************************************)
EXTENDS Integers, Sequences, FiniteSets, TLC

(***************************************************************************)
(*                        Fixed-point arithmetic                           *)
(***************************************************************************)

\* the double 1 (as in "1 - _par[0] - _par[1]"): 1000 units
One == 1000

\* the double 0.5 (as in "0.5 * time * _par[4]")
Half == One \div 2

\* the NaN of the double type: a value outside the range of the finite ones
NaN == -(2^30)

IsNaN(x) == x = NaN

\* the infinities of the double type are Inf and -Inf; the zeros have no sign,
\* so a quotient by zero takes the sign of its dividend
Inf == 2^29

IsInf(x) == x = Inf \/ x = -Inf

Finite(x) == -Inf < x /\ x < Inf

\* An operation on doubles is a function of the values of its operands (XOf),
\* which the machine computes once each; X(a, b) applies it to expressions.

AbsOf[x \in Int] == IF x < 0 THEN -x ELSE x

Abs(x) == AbsOf[x]

SgnOf[x \in Int] == IF x < 0 THEN -1 ELSE IF x > 0 THEN 1 ELSE 0

Sgn(x) == SgnOf[x]

\* integer division rounding towards zero (sign-symmetric, like IEEE rounding)
TruncDivOf[x \in Int, y \in Int] == Sgn(x) * Sgn(y) * (Abs(x) \div Abs(y))

TruncDiv(x, y) == TruncDivOf[x, y]

FNegOf[x \in Int] == IF IsNaN(x) THEN NaN ELSE -x

FNeg(x) == FNegOf[x]

FAddOf[x \in Int, y \in Int] ==
    IF Finite(x) /\ Finite(y) THEN x + y
    ELSE IF IsNaN(x) \/ IsNaN(y) THEN NaN
    ELSE IF IsInf(x) /\ IsInf(y) THEN (IF x = y THEN x ELSE NaN)
    ELSE IF IsInf(x) THEN x ELSE y

FAdd(x, y) == FAddOf[x, y]

FSubOf[x \in Int, y \in Int] == FAdd(x, FNeg(y))

FSub(x, y) == FSubOf[x, y]

FMulOf[x \in Int, y \in Int] ==
    IF Finite(x) /\ Finite(y)
    THEN IF x * y >= 0 THEN (x * y) \div One ELSE -((-(x * y)) \div One)
    ELSE IF IsNaN(x) \/ IsNaN(y) \/ x = 0 \/ y = 0 THEN NaN
    ELSE Sgn(x) * Sgn(y) * Inf

FMul(x, y) == FMulOf[x, y]

\* x / y: a quotient by zero is an infinity, or NaN for 0 / 0
FDivOf[x \in Int, y \in Int] ==
    IF Finite(x) /\ Finite(y) /\ y # 0 THEN TruncDiv(x * One, y)
    ELSE IF IsNaN(x) \/ IsNaN(y) THEN NaN
    ELSE IF y = 0 THEN (IF x = 0 THEN NaN ELSE Sgn(x) * Inf)
    ELSE IF IsInf(x) /\ IsInf(y) THEN NaN
    ELSE IF IsInf(x) THEN Sgn(x) * Sgn(y) * Inf
    ELSE 0

FDiv(x, y) == FDivOf[x, y]

\* the comparisons of doubles: false as soon as an operand is NaN
FLtOf[x \in Int, y \in Int] == ~IsNaN(x) /\ ~IsNaN(y) /\ x < y

FLt(x, y) == FLtOf[x, y]

FGeOf[x \in Int, y \in Int] == ~IsNaN(x) /\ ~IsNaN(y) /\ x >= y

FGe(x, y) == FGeOf[x, y]

FGtOf[x \in Int, y \in Int] == ~IsNaN(x) /\ ~IsNaN(y) /\ x > y

FGt(x, y) == FGtOf[x, y]

\* largest r with r * r <= n, by bisection on lo..hi (lo * lo <= n < hi * hi)
RECURSIVE ISqrtIn(_, _, _)
ISqrtIn(n, lo, hi) ==
    IF hi - lo <= 1 THEN lo
    ELSE LET mid == (lo + hi) \div 2
         IN  IF mid * mid <= n THEN ISqrtIn(n, mid, hi) ELSE ISqrtIn(n, lo, mid)

\* ::sqrt : NaN for a negative (or NaN) argument
FSqrtOf[x \in Int] ==
    IF IsNaN(x) \/ x < 0 THEN NaN
    ELSE IF x = Inf THEN Inf ELSE ISqrtIn(x * One, 0, x + One + 1)

FSqrt(x) == FSqrtOf[x]

\* number of terms of the power series that stand for the libm functions
SeriesTerms == 14

\* the weight of the term x^k / k! in the series of each function
Sel(kind, k) ==
    CASE kind = "exp"  -> 1
      [] kind = "cosh" -> IF k % 2 = 0 THEN 1 ELSE 0
      [] kind = "sinh" -> IF k % 2 = 1 THEN 1 ELSE 0
      [] kind = "cos"  -> IF k % 2 = 1 THEN 0 ELSE IF k % 4 = 0 THEN 1 ELSE -1
      [] kind = "sin"  -> IF k % 2 = 0 THEN 0 ELSE IF k % 4 = 1 THEN 1 ELSE -1

\* sum of the weighted terms x^k / k!, k = start .. SeriesTerms, added to acc;
\* term is x^(k-1) / (k-1)!
RECURSIVE Series(_, _, _, _, _)
Series(kind, x, k, term, acc) ==
    IF k > SeriesTerms THEN acc
    ELSE LET t == TruncDiv(term * x, One * k)
         IN  Series(kind, x, k + 1, t, acc + Sel(kind, k) * t)

\* the arguments the libm functions are tabulated on: |x| <= 4
ArgRange == -(4 * One) .. (4 * One)

ExpTable == [x \in ArgRange |-> Series("exp", x, 1, One, One)]

CoshTable == [x \in ArgRange |-> Series("cosh", x, 1, One, One)]

SinhTable == [x \in ArgRange |-> Series("sinh", x, 1, One, 0)]

CosTable == [x \in ArgRange |-> Series("cos", x, 1, One, One)]

SinTable == [x \in ArgRange |-> Series("sin", x, 1, One, 0)]

\* ::exp
ExpOf[x \in Int] ==
    IF IsNaN(x) THEN NaN
    ELSE IF x = Inf THEN Inf ELSE IF x = -Inf THEN 0 ELSE ExpTable[x]

Exp(x) == ExpOf[x]

\* ::cosh
CoshOf[x \in Int] ==
    IF IsNaN(x) THEN NaN ELSE IF IsInf(x) THEN Inf ELSE CoshTable[x]

Cosh(x) == CoshOf[x]

\* ::sinh
SinhOf[x \in Int] ==
    IF IsNaN(x) THEN NaN
    ELSE IF x = Inf THEN Inf ELSE IF x = -Inf THEN -Inf ELSE SinhTable[x]

Sinh(x) == SinhOf[x]

\* ::cos
CosOf[x \in Int] ==
    IF IsNaN(x) THEN NaN ELSE IF IsInf(x) THEN NaN ELSE CosTable[x]

Cos(x) == CosOf[x]

\* ::sin
SinOf[x \in Int] ==
    IF IsNaN(x) THEN NaN ELSE IF IsInf(x) THEN NaN ELSE SinTable[x]

Sin(x) == SinOf[x]

(***************************************************************************)
(*                     PhisSignal: state and inputs                        *)
(***************************************************************************)

VARIABLES
    B0sbar,     \* the template parameter B0sbar of the instance
    par,        \* _par[0..16], the 17 parameters held by the functor base
    A, B, C, D, \* A.k, B.k, C.k, D.k: the angular coefficients a_k .. d_k
    N,          \* N.k: the polarization factors N_k
    stale,      \* a parameter was changed and Update() has not been called since
    call        \* the call of Evaluate whose result the caller has not taken yet

tables == <<A, B, C, D, N>>

\* indices of the parameters and of the ten terms of the sum
ParIdx == 0 .. 16

K10 == 0 .. 9

\* largest decay time offered to Evaluate, in units of One
MaxTime == 1

\* the values each parameter is drawn from.  A_0^2 ranges over a negative,
\* an interior and a boundary value; with A_perp^2 it makes
\* 1 - A_0^2 - A_perp^2 negative, zero and positive.
ParValues(i) ==
    CASE i = 0          -> {-(One \div 4), Half, One}
      [] i = 1          -> {0, Half}
      [] i = 2          -> {0, One \div 4}
      [] i = 3          -> {342}
      [] i = 4          -> {0, One}
      [] i = 5          -> {0, 2 * One}
      [] i = 6          -> {Half}
      [] i = 8          -> {One}
      [] i = 10         -> {One, Half}
      [] i \in 11 .. 13 -> {One}
      [] i = 15         -> {Half}
      [] OTHER          -> {0}

\* the parameters the model changes after construction
Varied == {i \in ParIdx : Cardinality(ParValues(i)) > 1}

ParamVectors ==
    {[i \in ParIdx |->
        CASE i = 0  -> v[1] [] i = 1 -> v[2] [] i = 2 -> v[3]
          [] i = 4  -> v[4] [] i = 5 -> v[5] [] i = 10 -> v[6]
          [] OTHER  -> CHOOSE x \in ParValues(i) : TRUE] :
      v \in ParValues(0) \X ParValues(1) \X ParValues(2)
            \X ParValues(4) \X ParValues(5) \X ParValues(10)}

\* what an entry of N holds when it has never been written (the members are
\* not initialised by the constructors): any double
Indeterminate == {NaN, -One, 3 * One}

\* the events offered to Evaluate: (time, costheta_h, costheta_l, phi)
Events ==
    {[time |-> t * One, costheta_h |-> a[1], costheta_l |-> a[2], phi |-> a[3]] :
        t \in 0 .. MaxTime,
        a \in {<<Half, 0, One>>, <<-Half, Half, 2 * One>>}}

NoEvent == [time |-> 0, costheta_h |-> 0, costheta_l |-> 0, phi |-> 0]

(***************************************************************************)
(*          Collaborators of PhisSignal that are not in PhisSignal.h       *)
(***************************************************************************)

\* parameters::AngularFunctions (medusa/phi_s/Parameters.h): the ten angular
\* shape factors F_k of the decay angles, a pure function of the three angles
AngularFunctions(costheta_h, costheta_l, phi) ==
    LET ch2  == FMul(costheta_h, costheta_h)
        cl2  == FMul(costheta_l, costheta_l)
        sh2  == FSub(One, ch2)
        sl2  == FSub(One, cl2)
        sinh_ == FSqrt(sh2)
        s2h  == FMul(2 * One, FMul(sinh_, costheta_h))
        s2l  == FMul(2 * One, FMul(FSqrt(sl2), costheta_l))
        cphi == Cos(phi)
        sphi == Sin(phi)
    IN  [k \in K10 |->
          CASE k = 0 -> FMul(2 * One, FMul(ch2, sl2))
            [] k = 1 -> FMul(sh2, FSub(One, FMul(sl2, FMul(cphi, cphi))))
            [] k = 2 -> FMul(sh2, FSub(One, FMul(sl2, FMul(sphi, sphi))))
            [] k = 3 -> FMul(FMul(sh2, sl2), Sin(FMul(2 * One, phi)))
            [] k = 4 -> FMul(707, FMul(FMul(s2h, s2l), cphi))
            [] k = 5 -> FNeg(FMul(707, FMul(FMul(s2h, s2l), sphi)))
            [] k = 6 -> FMul(667, sl2)
            [] k = 7 -> FMul(816, FMul(FMul(sinh_, s2l), cphi))
            [] k = 8 -> FNeg(FMul(816, FMul(FMul(sinh_, s2l), sphi)))
            [] k = 9 -> FMul(2309, FMul(costheta_h, sl2))]

\* the shape factors of the events of the model
FTable == [ev \in Events |-> AngularFunctions(ev.costheta_h, ev.costheta_l, ev.phi)]

\* the parameters each term k takes its |lambda|, phi and delta from
LamIdx(k) == 10 + (k % 4)

PhiIdx(k) == 6 + (k % 4)

Delta(p, k) == IF k <= 2 THEN 0 ELSE p[14 + (k % 3)]

\* Update_ATCoefficients (details/Update_ATCoefficients.inl): each of the
\* forty coefficients is a fixed closed-form expression of the parameters
\* phi, lambda and delta (_par[6..16])
ATCoefficient(tbl, k, p) ==
    LET lam  == p[LamIdx(k)]
        lam2 == FMul(lam, lam)
        dphi == FSub(p[PhiIdx(k)], Delta(p, k))
        cd   == Cos(Delta(p, k))
    IN  CASE tbl = "A" -> FMul(FMul(Half, FAdd(One, lam2)), cd)
          [] tbl = "B" -> FNeg(FMul(lam, Cos(dphi)))
          [] tbl = "C" -> FMul(FMul(Half, FSub(One, lam2)), cd)
          [] tbl = "D" -> FMul(lam, Sin(dphi))

\* the four tables of every parameter vector of the model, tabulated
ATTable ==
    [p \in ParamVectors |->
        [tbl \in {"A", "B", "C", "D"} |-> [k \in K10 |-> ATCoefficient(tbl, k, p)]]]

\* the table tbl that Update_ATCoefficients derives from the parameters p
ATCoefficients(tbl, p) == ATTable[p][tbl]


(***************************************************************************)
(*                       PhisSignal: the operations                        *)
(***************************************************************************)

\* 3./(4*PI), the static constant f of Time_Factor (0.238732414638)
f0 == 239

\* the offset added to DeltaGamma_sd in Time_Factor (0.65789)
GammaOffset == 658

\* A_par2 = 1 - _par[0] - _par[1]
A_par2Of(p) == FSub(FSub(One, p[0]), p[1])

\* the ten assignments with the square roots left out
NFactorsWithoutRoots(p) ==
    LET A_par2 == A_par2Of(p)
    IN  [k \in K10 |->
          CASE k = 0 -> p[0]
            [] k = 1 -> A_par2
            [] k = 2 -> p[1]
            [] k = 3 -> FMul(p[1], A_par2)
            [] k = 4 -> FMul(p[0], A_par2)
            [] k = 5 -> FMul(p[0], p[1])
            [] k = 6 -> p[2]
            [] k = 7 -> FMul(p[2], A_par2)
            [] k = 8 -> FMul(p[2], p[1])
            [] k = 9 -> FMul(p[2], p[0])]

\* the ten assignments of Update_NFactors
NFactorsOf(p) ==
    LET A_par2 == A_par2Of(p)
    IN  [k \in K10 |->
          CASE k = 0 -> p[0]
            [] k = 1 -> A_par2
            [] k = 2 -> p[1]
            [] k = 3 -> FSqrt(FMul(p[1], A_par2))
            [] k = 4 -> FSqrt(FMul(p[0], A_par2))
            [] k = 5 -> FSqrt(FMul(p[0], p[1]))
            [] k = 6 -> p[2]
            [] k = 7 -> FSqrt(FMul(p[2], A_par2))
            [] k = 8 -> FSqrt(FMul(p[2], p[1]))
            [] k = 9 -> FSqrt(FMul(p[2], p[0]))]

\* Update_NFactors with the test of A_par2 taken out
Update_NFactorsUnguarded(p, n) == NFactorsOf(p)

\* Update_NFactors: the value of N.k after the call, n being N.k before it
Update_NFactors(p, n) == IF FGe(A_par2Of(p), 0) THEN NFactorsOf(p) ELSE n

\* constexpr static int CP = (B0sbar ? -1 : 1)
CPOf(bbar) == IF bbar THEN -1 ELSE 1

\* a double times the int CP
FMulIntOf[x \in Int, n \in Int] ==
    IF Finite(x) THEN x * n
    ELSE IF IsNaN(x) \/ n = 0 THEN NaN ELSE Sgn(n) * x

FMulInt(x, n) == FMulIntOf[x, n]

\* an instance: its parameters and its five tables
Object(p, a, b, c, d, n) == [par |-> p, A |-> a, B |-> b, C |-> c, D |-> d, N |-> n]

This == Object(par, A, B, C, D, N)

\* Time_Factor with the sign CP left out of the oscillating terms
Time_FactorWithoutCP(o, cp, index, time, chT1, shT1, cT2, sT2) ==
    FMul(FMul(f0, Exp(FMul(FNeg(FAdd(o.par[3], GammaOffset)), time))),
         FAdd(FAdd(FMul(o.A[index], chT1), FMul(o.B[index], shT1)),
              FAdd(FMul(o.C[index], cT2), FMul(o.D[index], sT2))))

\* Time_Factor with the offset 0.65789 left out of the exponent
Time_FactorWithoutOffset(o, cp, index, time, chT1, shT1, cT2, sT2) ==
    FMul(FMul(f0, Exp(FMul(FNeg(o.par[3]), time))),
         FAdd(FAdd(FMul(o.A[index], chT1), FMul(o.B[index], shT1)),
              FMulInt(FAdd(FMul(o.C[index], cT2), FMul(o.D[index], sT2)), cp)))

\* Time_Factor, evaluated on the instance o with the CP sign cp
Time_Factor(o, cp, index, time, chT1, shT1, cT2, sT2) ==
    FMul(FMul(f0, Exp(FMul(FNeg(FAdd(o.par[3], GammaOffset)), time))),
         FAdd(FAdd(FMul(o.A[index], chT1), FMul(o.B[index], shT1)),
              FMulInt(FAdd(FMul(o.C[index], cT2), FMul(o.D[index], sT2)), cp)))

\* one iteration of the loop of Evaluate: UnnormPDF += F.fk[i]*N.k[i]*Time_Factor(i, ...)
LoopBody(o, cp, i, UnnormPDF, F, time, chT1, shT1, cT2, sT2) ==
    FAdd(UnnormPDF,
         FMul(FMul(F[i], o.N[i]), Time_Factor(o, cp, i, time, chT1, shT1, cT2, sT2)))

\* the loop for(size_t i=0; i<10; i++) of Evaluate, from index i on
RECURSIVE Loop(_, _, _, _, _, _, _, _, _, _)
Loop(o, cp, i, UnnormPDF, F, time, chT1, shT1, cT2, sT2) ==
    IF i < 10
    THEN Loop(o, cp, i + 1,
              LoopBody(o, cp, i, UnnormPDF, F, time, chT1, shT1, cT2, sT2),
              F, time, chT1, shT1, cT2, sT2)
    ELSE UnnormPDF

\* the tail of Evaluate with the clamp taken out
FinishWithoutClamp(UnnormPDF) ==
    [guarded  |-> FALSE,
     sum      |-> UnnormPDF,
     reported |-> IsNaN(UnnormPDF),
     ret      |-> UnnormPDF]

\* the tail of Evaluate with a clamp that also takes a NaN for a negative value
FinishRepairing(UnnormPDF) ==
    [guarded  |-> FALSE,
     sum      |-> UnnormPDF,
     reported |-> IsNaN(UnnormPDF),
     ret      |-> IF IsNaN(UnnormPDF) \/ UnnormPDF < 0 THEN 0 ELSE UnnormPDF]

\* the tail of Evaluate: hydra::CHECK_VALUE reports a NaN, then the clamp
Finish(UnnormPDF) ==
    [guarded  |-> FALSE,
     sum      |-> UnnormPDF,
     reported |-> IsNaN(UnnormPDF),
     ret      |-> IF FLt(UnnormPDF, 0) THEN 0 ELSE UnnormPDF]

\* the early return of Evaluate
Guarded == [guarded |-> TRUE, sum |-> 0, reported |-> FALSE, ret |-> 0]

\* Evaluate past its early return: the angular functions, the sum of the ten
\* terms, the check of the value and the clamp
EvaluateBody(o, cp, ev) ==
    LET F  == FTable[ev]
        T1 == FMul(FMul(Half, ev.time), o.par[4])
        T2 == FMul(ev.time, o.par[5])
    IN  Finish(Loop(o, cp, 0, 0, F, ev.time, Cosh(T1), Sinh(T1), Cos(T2), Sin(T2)))

\* Evaluate with the early return taken out
EvaluateWithoutGuard(o, cp, ev) == EvaluateBody(o, cp, ev)

\* Evaluate(time, costheta_h, costheta_l, phi) on the instance o
Evaluate(o, cp, ev) ==
    IF FLt(A_par2Of(o.par), 0) THEN Guarded ELSE EvaluateBody(o, cp, ev)

\* Update(): Update_ATCoefficients(), then Update_NFactors()
Updated(o) ==
    Object(o.par, ATCoefficients("A", o.par), ATCoefficients("B", o.par),
           ATCoefficients("C", o.par), ATCoefficients("D", o.par),
           Update_NFactors(o.par, o.N))

\* constructors that would store the parameters and leave the tables unwritten
ConstructedWithoutUpdate(p, g) ==
    Object(p, [k \in K10 |-> g], [k \in K10 |-> g], [k \in K10 |-> g],
           [k \in K10 |-> g], [k \in K10 |-> g])

\* the constructors from 17 parameters: the base stores them, the body calls
\* Update(); g is what the never-written members hold
Constructed(p, g) ==
    Updated(Object(p, [k \in K10 |-> g], [k \in K10 |-> g], [k \in K10 |-> g],
                   [k \in K10 |-> g], [k \in K10 |-> g]))

\* the result recorded for an operation that returns nothing
NoResult == [guarded |-> FALSE, sum |-> 0, reported |-> FALSE, ret |-> 0]

\* the last call of Evaluate, until another operation follows it
Returned(ev, res) == [evaluated |-> TRUE, ev |-> ev, res |-> res]

NoCall == [evaluated |-> FALSE, ev |-> NoEvent, res |-> NoResult]

Install(o) ==
    /\ par' = o.par
    /\ A' = o.A
    /\ B' = o.B
    /\ C' = o.C
    /\ D' = o.D
    /\ N' = o.N

\* the parameter vectors of the instances an assignment copies from
SourceVectors ==
    {q \in ParamVectors : /\ q[2] = 0 /\ q[4] = 0 /\ q[5] = 0
                          /\ q[10] = Half /\ q[0] \in {Half, One}}

\* the instances an assignment copies from
AssignSources == {Constructed(p, NaN) : p \in SourceVectors}

(***************************************************************************)
(*                     CubicSpline: state and inputs                       *)
(***************************************************************************)

VARIABLES
    u,            \* the padded knot array u[0 .. nKnots+5]
    AS,           \* AS[r][i]: coefficient of x^r of the polynomial of interval i
    NegativePart, \* whether the linear extrapolation gets negative
    xNegative,    \* where it does
    factorial,    \* the factorial table
    scall         \* the last call completed: a read of the spline or a free function

splineVars == <<u, AS, NegativePart, xNegative, factorial>>

\* the template parameter nKnots of the instance
nKnots == 3

KnotIdx == 0 .. nKnots - 1

\* the knot vectors the splines are built from: increasing
KnotVectors ==
    {[i \in KnotIdx |-> i * One], [i \in KnotIdx |-> (i * (i + 1)) * Half]}

\* the lists of nKnots+2 spline coefficients: a constant efficiency, a rising
\* and a falling one
CoefficientLists ==
    {[i \in 0 .. nKnots + 1 |-> One],
     [i \in 0 .. nKnots + 1 |-> (i + 1) * Half],
     [i \in 0 .. nKnots + 1 |-> (nKnots + 2 - i) * Half]}

\* the arguments offered to findKnot and CSplineEval
Abscissae == {-Half} \cup {i * Half : i \in 0 .. 2 * nKnots + 2}

\* a * b * c, as the compiler groups it
Mul3(a, b, c) == FMul(FMul(a, b), c)

\* the padding of the knot array
PaddedKnots(knots) ==
    [i \in 0 .. nKnots + 5 |->
        IF i < 3 THEN knots[0]
        ELSE IF i < nKnots + 3 THEN knots[i - 3] ELSE knots[nKnots - 1]]

\* the knot arrays and the coefficient arrays, as stored values
Padded == [0 .. nKnots + 5 -> Int]

Coefficients == [0 .. nKnots + 1 -> Int]

\* the arrays AS[4][nKnots-1] of the cubics and AS[4][nKnots]
CubicTables == [0 .. 3 -> [0 .. nKnots - 2 -> Int]]

Tables == [0 .. 3 -> [0 .. nKnots - 1 -> Int]]

\* the prefactors P[i], Q[i], R[i], S[i]
PreP(w, i) == Mul3(FSub(w[i+4], w[i+1]), FSub(w[i+4], w[i+2]), FSub(w[i+4], w[i+3]))

PreQ(w, i) == Mul3(FSub(w[i+5], w[i+2]), FSub(w[i+4], w[i+2]), FSub(w[i+4], w[i+3]))

PreR(w, i) == Mul3(FSub(w[i+5], w[i+3]), FSub(w[i+5], w[i+2]), FSub(w[i+4], w[i+3]))

PreS(w, i) == Mul3(FSub(w[i+6], w[i+3]), FSub(w[i+5], w[i+3]), FSub(w[i+4], w[i+3]))

\* a0[m][i], a1[m][i], a2[m][i], a3[m][i]: the coefficient of x^r of the
\* basis polynomial m on the interval i
BasisCoeffOf[w \in Padded, r \in 0 .. 3, m \in 0 .. 3, i \in Int] ==
    LET P == PreP(w, i)
        Q == PreQ(w, i)
        R == PreR(w, i)
        S == PreS(w, i)
        u1 == w[i+1]
        u2 == w[i+2]
        u3 == w[i+3]
        u4 == w[i+4]
        u5 == w[i+5]
        u6 == w[i+6]
    IN  CASE r = 0 /\ m = 0 -> FDiv(Mul3(u4, u4, u4), P)
          [] r = 0 /\ m = 1 ->
                FSub(FSub(FDiv(Mul3(FNeg(u1), u4, u4), P), FDiv(Mul3(u2, u4, u5), Q)),
                     FDiv(Mul3(u3, u5, u5), R))
          [] r = 0 /\ m = 2 ->
                FAdd(FAdd(FDiv(Mul3(u2, u2, u4), Q), FDiv(Mul3(u2, u3, u5), R)),
                     FDiv(Mul3(u3, u3, u6), S))
          [] r = 0 /\ m = 3 -> FDiv(Mul3(FNeg(u3), u3, u3), S)
          [] r = 1 /\ m = 0 -> FDiv(FMul(FMulInt(u4, -3), u4), P)
          [] r = 1 /\ m = 1 ->
                FAdd(FAdd(FDiv(FAdd(FMul(FMulInt(u1, 2), u4), FMul(u4, u4)), P),
                          FDiv(FAdd(FAdd(FMul(u2, u4), FMul(u2, u5)), FMul(u4, u5)), Q)),
                     FDiv(FAdd(FMul(FMulInt(u3, 2), u5), FMul(u5, u5)), R))
          [] r = 1 /\ m = 2 ->
                FSub(FSub(FDiv(FNeg(FAdd(FMul(FMulInt(u2, 2), u4), FMul(u2, u2))), Q),
                          FDiv(FAdd(FAdd(FMul(u2, u3), FMul(u2, u5)), FMul(u3, u5)), R)),
                     FDiv(FAdd(FMul(FMulInt(u3, 2), u6), FMul(u3, u3)), S))
          [] r = 1 /\ m = 3 -> FDiv(FMul(FMulInt(u3, 3), u3), S)
          [] r = 2 /\ m = 0 -> FDiv(FMulInt(u4, 3), P)
          [] r = 2 /\ m = 1 ->
                FSub(FSub(FDiv(FNeg(FAdd(FMulInt(u4, 2), u1)), P),
                          FDiv(FAdd(FAdd(u2, u4), u5), Q)),
                     FDiv(FAdd(FMulInt(u5, 2), u3), R))
          [] r = 2 /\ m = 2 ->
                FAdd(FAdd(FDiv(FAdd(FMulInt(u2, 2), u4), Q),
                          FDiv(FAdd(FAdd(u2, u5), u3), R)),
                     FDiv(FAdd(FMulInt(u3, 2), u6), S))
          [] r = 2 /\ m = 3 -> FDiv(FMulInt(u3, -3), S)
          [] r = 3 /\ m = 0 -> FDiv(-One, P)
          [] r = 3 /\ m = 1 -> FAdd(FAdd(FDiv(One, P), FDiv(One, Q)), FDiv(One, R))
          [] r = 3 /\ m = 2 -> FSub(FSub(FDiv(-One, Q), FDiv(One, R)), FDiv(One, S))
          [] r = 3 /\ m = 3 -> FDiv(One, S)

BasisCoeff(w, r, m, i) == BasisCoeffOf[w, r, m, i]

\* The values of a spline (the coefficients b, the table AS, what CSplineEval
\* returns) are counted in units of 1e-10, finer than the 1e-3 of the knots and
\* abscissae, so that magnitudes on both sides of 1e-9 exist.  FMul and FDiv
\* by a knot or an abscissa keep that unit, and the quotient of two values of
\* a spline is an abscissa.

\* the threshold 1e-9 below which a coefficient is set to 0
Tiny == 10

\* if(std::fabs(AS[r][i])<1e-9) AS[r][i]=0
SnapOf[v \in Int] == IF FLt(Abs(v), Tiny) THEN 0 ELSE v

Snap(v) == SnapOf[v]

\* AS[r][i] of an interval i < nKnots-1, from the spline coefficients b
CubicCoeffOf[w \in Padded, b \in Coefficients, r \in 0 .. 3, i \in Int] ==
    Snap(FAdd(FAdd(FAdd(FMul(b[i], BasisCoeff(w, r, 0, i)),
                        FMul(b[i+1], BasisCoeff(w, r, 1, i))),
                   FMul(b[i+2], BasisCoeff(w, r, 2, i))),
              FMul(b[i+3], BasisCoeff(w, r, 3, i))))

CubicCoeff(w, b, r, i) == CubicCoeffOf[w, b, r, i]

\* the cubics of the intervals 0 .. nKnots-2
Cubics(w, b) ==
    [r \in 0 .. 3 |-> [i \in 0 .. nKnots - 2 |-> CubicCoeff(w, b, r, i)]]

\* the table AS after the constructor: the cubics cub, then the linear
\* extrapolation of the last interval from the last knot v
ExtrapolatedOf[cub \in CubicTables, v \in Int] ==
    LET l   == nKnots - 2
        a1  == FAdd(FAdd(cub[1][l], FMul(FMulInt(cub[2][l], 2), v)),
                    FMul(FMul(FMulInt(cub[3][l], 3), v), v))
        a0  == FSub(FAdd(FAdd(FAdd(cub[0][l], FMul(cub[1][l], v)),
                              FMul(FMul(cub[2][l], v), v)),
                         FMul(FMul(FMul(cub[3][l], v), v), v)),
                    FMul(a1, v))
    IN  [r \in 0 .. 3 |->
            [i \in KnotIdx |->
                IF i < nKnots - 1 THEN cub[r][i]
                ELSE CASE r = 0 -> a0 [] r = 1 -> a1 [] OTHER -> 0]]

\* a table whose last interval would be constant: the value of the last cubic
\* at the last knot v
ConstantBeyondOf[cub \in CubicTables, v \in Int] ==
    LET l   == nKnots - 2
        a0  == FAdd(FAdd(FAdd(cub[0][l], FMul(cub[1][l], v)),
                         FMul(FMul(cub[2][l], v), v)),
                    FMul(FMul(FMul(cub[3][l], v), v), v))
    IN  [r \in 0 .. 3 |->
            [i \in KnotIdx |->
                IF i < nKnots - 1 THEN cub[r][i] ELSE IF r = 0 THEN a0 ELSE 0]]

TableASConstant(w, b) == ConstantBeyondOf[Cubics(w, b), w[nKnots + 2]]

TableAS(w, b) == ExtrapolatedOf[Cubics(w, b), w[nKnots + 2]]

\* a spline: its five members
Spline(w, as, neg, xneg, fact) ==
    [u |-> w, AS |-> as, NegativePart |-> neg, xNegative |-> xneg, factorial |-> fact]

\* the end of the constructors: NegativePart, xNegative and the factorials,
\* from the knots w and the table as; g is what xNegative holds when the
\* constructor does not write it
WithNegativePartOf[w \in Padded, as \in Tables, g \in Int] ==
    LET neg == FLt(as[1][nKnots - 1], 0)
    IN  Spline(w, as, neg,
               IF neg THEN FDiv(FNeg(as[0][nKnots - 1]), as[1][nKnots - 1]) ELSE g,
               <<1, 1, 2, 6>>)

\* the constructors from the knots w, padded, and nKnots+2 coefficients
FromPaddedOf[w \in Padded, b \in Coefficients, g \in Int] ==
    WithNegativePartOf[w, TableAS(w, b), g]

\* the constructors from a knot vector and nKnots+2 coefficients
SplineConstructed(knots, b, g) == FromPaddedOf[PaddedKnots(knots), b, g]

\* the splines of the model, tabulated
Splines ==
    {SplineConstructed(k, b, g) :
        k \in KnotVectors, b \in CoefficientLists, g \in {NaN, 0}}

ThisSpline == Spline(u, AS, NegativePart, xNegative, factorial)

\* the value 1e-3 returned beyond xNegative
SmallPositive == 10000000

\* the loop of findKnot from index i on, j being the index found so far
RECURSIVE FindKnotFrom(_, _, _, _)
FindKnotFrom(sp, x, i, j) ==
    IF i < nKnots
    THEN FindKnotFrom(sp, x, i + 1, IF FGe(x, sp.u[3 + i]) THEN i ELSE j)
    ELSE j

\* a scan that would leave a knot equal to x to the interval below it
RECURSIVE FindKnotFromStrict(_, _, _, _)
FindKnotFromStrict(sp, x, i, j) ==
    IF i < nKnots
    THEN FindKnotFromStrict(sp, x, i + 1, IF FGt(x, sp.u[3 + i]) THEN i ELSE j)
    ELSE j

findKnotStrict(sp, x) == FindKnotFromStrict(sp, x, 0, 0)

\* findKnot(x)
findKnot(sp, x) == FindKnotFrom(sp, x, 0, 0)

\* AS[0][j] + AS[1][j]*x + AS[2][j]*x*x + AS[3][j]*x*x*x
Polynomial(sp, j, x) ==
    FAdd(FAdd(FAdd(sp.AS[0][j], FMul(sp.AS[1][j], x)),
              FMul(FMul(sp.AS[2][j], x), x)),
         FMul(FMul(FMul(sp.AS[3][j], x), x), x))

\* CSplineEval(x) returning 0 where the extrapolation is negative
CSplineEvalZero(sp, x) ==
    IF FGt(x, sp.xNegative) /\ sp.NegativePart
    THEN 0
    ELSE Polynomial(sp, findKnot(sp, x), x)

\* CSplineEval(x)
CSplineEval(sp, x) ==
    IF FGt(x, sp.xNegative) /\ sp.NegativePart
    THEN SmallPositive
    ELSE Polynomial(sp, findKnot(sp, x), x)

(***************************************************************************)
(*                 The operations as steps of the owner                    *)
(***************************************************************************)

phisVars == <<B0sbar, par, A, B, C, D, N, stale>>

\* the threads that call the read operations
Readers == {"r1", "r2"}

VARIABLE
    rd      \* rd[r]: where the thread r is in its call, and the call's locals

vars == <<B0sbar, par, A, B, C, D, N, stale, call,
          u, AS, NegativePart, xNegative, factorial, scall, rd>>

\* a thread outside any call
NotReading ==
    [pc |-> "idle", op |-> "none", ev |-> NoEvent, x |-> 0, i |-> 0,
     chT1 |-> 0, shT1 |-> 0, cT2 |-> 0, sT2 |-> 0, UnnormPDF |-> 0, j |-> 0,
     ret |-> 0]

\* no thread is inside a read operation
Quiescent == \A r \in Readers : rd[r].pc = "idle"

\* the last call of findKnot, CSplineEval or a free function, until the caller
\* takes its result
SReturned(op, x, ret) == [called |-> TRUE, op |-> op, x |-> x, ret |-> ret]

NoSCall == [called |-> FALSE, op |-> "none", x |-> 0, ret |-> 0]

\* no returned value is waiting for the caller
Idle == ~call.evaluated /\ ~scall.called

\* construction of the PhisSignal from a parameter vector of the family P
InitPhis(P) ==
    /\ \E o \in {Constructed(p, g) : p \in P, g \in Indeterminate} :
          /\ par = o.par
          /\ A = o.A
          /\ B = o.B
          /\ C = o.C
          /\ D = o.D
          /\ N = o.N
    /\ stale = FALSE
    /\ call = NoCall

\* construction of the CubicSpline, one of the splines of S
InitSpline(S) ==
    /\ \E sp \in S :
          /\ u = sp.u
          /\ AS = sp.AS
          /\ NegativePart = sp.NegativePart
          /\ xNegative = sp.xNegative
          /\ factorial = sp.factorial
    /\ scall = NoSCall

\* the spline that stands by while the PhisSignal is exercised
StandBy == {SplineConstructed([i \in KnotIdx |-> i * One],
                              [i \in 0 .. nKnots + 1 |-> One], 0)}

Init ==
    /\ B0sbar \in BOOLEAN
    /\ InitPhis(ParamVectors)
    /\ InitSpline(StandBy)
    /\ rd = [r \in Readers |-> NotReading]

\* a parameter of index in I is changed through the functor base
SetParameterIn(I) ==
    \E i \in I : \E v \in ParValues(i) :
        /\ v # par[i]
        /\ par' = [par EXCEPT ![i] = v]
        /\ stale' = TRUE
        /\ call' = NoCall
        /\ UNCHANGED <<B0sbar, A, B, C, D, N, splineVars, scall, rd>>

SetParameter == SetParameterIn(Varied)

Update ==
    /\ Install(Updated(This))
    /\ stale' = FALSE
    /\ call' = NoCall
    /\ UNCHANGED <<B0sbar, splineVars, scall, rd>>

\* a call of Evaluate that would refresh the tables before using them
EvaluateCallRefreshing ==
    \E ev \in Events :
        /\ Idle
        /\ Install(Updated(This))
        /\ stale' = FALSE
        /\ call' = Returned(ev, Evaluate(Updated(This), CPOf(B0sbar), ev))
        /\ UNCHANGED <<B0sbar, splineVars, scall, rd>>

\* Evaluate is called; its result stays in call until the caller takes it
EvaluateCall ==
    \E ev \in Events :
        /\ Idle
        /\ call' = Returned(ev, Evaluate(This, CPOf(B0sbar), ev))
        /\ UNCHANGED <<phisVars, splineVars, scall, rd>>

\* the caller takes the value Evaluate returned
Return ==
    /\ call.evaluated
    /\ call' = NoCall
    /\ UNCHANGED <<phisVars, splineVars, scall, rd>>

\* operator=(other), other # this
Assign ==
    \E other \in AssignSources :
        /\ Install(other)
        /\ stale' = FALSE
        /\ call' = NoCall
        /\ UNCHANGED <<B0sbar, splineVars, scall, rd>>

Next == SetParameter \/ Update \/ EvaluateCall \/ Return \/ Assign

Spec == Init /\ [][Next]_vars

(***************************************************************************)
(*        Both objects under one owner that calls the read operations      *)
(***************************************************************************)

\* the parameter vectors of the PhisSignal next to the spline
PureVectors == {q \in SourceVectors : q[1] = 0}

\* findKnot(x) is called
FindKnotCall ==
    \E x \in Abscissae :
        /\ Idle
        /\ scall' = SReturned("findKnot", x, findKnot(ThisSpline, x))
        /\ UNCHANGED <<phisVars, call, splineVars, rd>>

\* a call of CSplineEval that would keep the argument in xNegative
CSplineEvalCallKeeping ==
    \E x \in Abscissae :
        /\ Idle
        /\ scall' = SReturned("CSplineEval", x, CSplineEval(ThisSpline, x))
        /\ xNegative' = x
        /\ UNCHANGED <<phisVars, call, u, AS, NegativePart, factorial, rd>>

\* CSplineEval(x) is called
CSplineEvalCall ==
    \E x \in Abscissae :
        /\ Idle
        /\ scall' = SReturned("CSplineEval", x, CSplineEval(ThisSpline, x))
        /\ UNCHANGED <<phisVars, call, splineVars, rd>>

\* the caller takes the value findKnot or CSplineEval returned
SplineReturn ==
    /\ scall.called
    /\ scall' = NoSCall
    /\ UNCHANGED <<phisVars, call, splineVars, rd>>

\* CubicSpline::operator=(other), other # this and one of the splines of S:
\* the five members are copied
SplineAssignFrom(S) ==
    \E other \in S :
        /\ other # ThisSpline
        /\ u' = other.u
        /\ AS' = other.AS
        /\ NegativePart' = other.NegativePart
        /\ xNegative' = other.xNegative
        /\ factorial' = other.factorial
        /\ scall' = NoSCall
        /\ UNCHANGED <<phisVars, call, rd>>

SplineAssign == SplineAssignFrom(Splines)

\* the amplitude A_perp^2 is changed
SetAmplitude == SetParameterIn({1})

InitPure ==
    /\ B0sbar = FALSE
    /\ InitPhis(PureVectors)
    /\ InitSpline(Splines)
    /\ rd = [r \in Readers |-> NotReading]

NextPure ==
    \/ SetAmplitude
    \/ Update
    \/ EvaluateCall
    \/ Return
    \/ Assign
    \/ FindKnotCall
    \/ CSplineEvalCall
    \/ SplineReturn
    \/ SplineAssign

SpecPure == InitPure /\ [][NextPure]_vars

(***************************************************************************)
(*      Threads inside the read operations, one shared access a step       *)
(***************************************************************************)

\* the events and the abscissae the threads are given
ReaderEvents == {ev \in Events : ev.time = MaxTime * One}

ReaderAbscissae == {x \in Abscissae : x % One = 0} \cup {-Half}

\* the parameter vectors of the instance the threads read
ReaderVectors ==
    {q \in ParamVectors : /\ q[1] = Half /\ q[2] = One \div 4 /\ q[4] = One
                          /\ q[5] = 2 * One /\ q[10] = Half}

\* the spline the threads read: a falling efficiency
ReaderSplines ==
    {SplineConstructed([i \in KnotIdx |-> i * One],
                       [i \in 0 .. nKnots + 1 |-> (nKnots + 2 - i) * Half], 0)}

\* the thread r enters Evaluate with an event of E: A_par2 and its test, then
\* the locals
EvaluateBeginWith(r, E) ==
    \E ev \in E :
        /\ rd[r].pc = "idle"
        /\ rd' = [rd EXCEPT ![r] =
                    IF FLt(A_par2Of(par), 0)
                    THEN [NotReading EXCEPT !.pc = "done", !.op = "Evaluate",
                                            !.ev = ev, !.ret = 0]
                    ELSE LET T1 == FMul(FMul(Half, ev.time), par[4])
                             T2 == FMul(ev.time, par[5])
                         IN  [NotReading EXCEPT !.pc = "loop", !.op = "Evaluate",
                                                !.ev = ev,
                                                !.chT1 = Cosh(T1), !.shT1 = Sinh(T1),
                                                !.cT2 = Cos(T2), !.sT2 = Sin(T2)]]
        /\ UNCHANGED <<phisVars, call, splineVars, scall>>

EvaluateBegin(r) == EvaluateBeginWith(r, ReaderEvents)

\* an iteration of the loop that would add to the sum of the thread r1
EvaluateStepShared(r) ==
    /\ rd[r].pc = "loop"
    /\ rd[r].i < 10
    /\ rd' = [rd EXCEPT
                !["r1"].UnnormPDF =
                    LoopBody(This, CPOf(B0sbar), rd[r].i, rd["r1"].UnnormPDF,
                             FTable[rd[r].ev], rd[r].ev.time, rd[r].chT1,
                             rd[r].shT1, rd[r].cT2, rd[r].sT2),
                ![r].i = rd[r].i + 1]
    /\ UNCHANGED <<phisVars, call, splineVars, scall>>

\* the thread r runs one iteration of the loop of Evaluate
EvaluateStep(r) ==
    /\ rd[r].pc = "loop"
    /\ rd[r].i < 10
    /\ rd' = [rd EXCEPT
                ![r].UnnormPDF =
                    LoopBody(This, CPOf(B0sbar), rd[r].i, rd[r].UnnormPDF,
                             FTable[rd[r].ev], rd[r].ev.time, rd[r].chT1,
                             rd[r].shT1, rd[r].cT2, rd[r].sT2),
                ![r].i = rd[r].i + 1]
    /\ UNCHANGED <<phisVars, call, splineVars, scall>>

\* the thread r leaves the loop: the check of the value, the clamp, the return
EvaluateEnd(r) ==
    /\ rd[r].pc = "loop"
    /\ rd[r].i = 10
    /\ rd' = [rd EXCEPT ![r].pc = "done", ![r].ret = Finish(rd[r].UnnormPDF).ret]
    /\ UNCHANGED <<phisVars, call, splineVars, scall>>

\* the thread r enters CSplineEval: the test of xNegative and NegativePart
CSplineEvalBegin(r) ==
    \E x \in ReaderAbscissae :
        /\ rd[r].pc = "idle"
        /\ rd' = [rd EXCEPT ![r] =
                    IF FGt(x, xNegative) /\ NegativePart
                    THEN [NotReading EXCEPT !.pc = "done", !.op = "CSplineEval",
                                            !.x = x, !.ret = SmallPositive]
                    ELSE [NotReading EXCEPT !.pc = "knot", !.op = "CSplineEval",
                                            !.x = x]]
        /\ UNCHANGED <<phisVars, call, splineVars, scall>>

\* the thread r calls findKnot
CSplineEvalKnot(r) ==
    /\ rd[r].pc = "knot"
    /\ rd' = [rd EXCEPT ![r].pc = "cubic", ![r].j = findKnot(ThisSpline, rd[r].x)]
    /\ UNCHANGED <<phisVars, call, splineVars, scall>>

\* the thread r evaluates the cubic of the interval found and returns
CSplineEvalEnd(r) ==
    /\ rd[r].pc = "cubic"
    /\ rd' = [rd EXCEPT ![r].pc = "done",
                        ![r].ret = Polynomial(ThisSpline, rd[r].j, rd[r].x)]
    /\ UNCHANGED <<phisVars, call, splineVars, scall>>

\* the thread r takes the value returned
ReaderReturn(r) ==
    /\ rd[r].pc = "done"
    /\ rd' = [rd EXCEPT ![r] = NotReading]
    /\ UNCHANGED <<phisVars, call, splineVars, scall>>

\* the owner changes A_0^2 or calls Update() while no thread is reading
QuiescentSet ==
    /\ Quiescent
    /\ SetParameterIn({0})

QuiescentUpdate ==
    /\ Quiescent
    /\ Update

InitReaders ==
    /\ B0sbar = TRUE
    /\ InitPhis(ReaderVectors)
    /\ InitSpline(ReaderSplines)
    /\ rd = [r \in Readers |-> NotReading]

NextReaders ==
    \/ QuiescentSet
    \/ QuiescentUpdate
    \/ \E r \in Readers :
          \/ EvaluateBegin(r)
          \/ EvaluateStep(r)
          \/ EvaluateEnd(r)
          \/ CSplineEvalBegin(r)
          \/ CSplineEvalKnot(r)
          \/ CSplineEvalEnd(r)
          \/ ReaderReturn(r)

SpecReaders == InitReaders /\ [][NextReaders]_vars

(***************************************************************************)
(*        Update() writing entry by entry while a thread evaluates         *)
(***************************************************************************)

\* the fifty entries Update() writes, in its order: A.k[0..9], B.k, C.k, D.k
\* by Update_ATCoefficients, then N.k[0..9] by Update_NFactors
EntryIdx == 0 .. 49

\* the entry n as it is now
Entry(n) ==
    CASE n < 10 -> A[n]
      [] n \in 10 .. 19 -> B[n - 10]
      [] n \in 20 .. 29 -> C[n - 20]
      [] n \in 30 .. 39 -> D[n - 30]
      [] OTHER -> N[n - 40]

\* the ten factors Update_NFactors assigns when A_par2 >= 0, tabulated
NTable == [p \in ParamVectors |-> NFactorsOf(p)]

\* the entry n as Update() leaves it: N.k is written only when A_par2 >= 0
WrittenEntry(n) ==
    CASE n < 10 -> ATTable[par]["A"][n]
      [] n \in 10 .. 19 -> ATTable[par]["B"][n - 10]
      [] n \in 20 .. 29 -> ATTable[par]["C"][n - 20]
      [] n \in 30 .. 39 -> ATTable[par]["D"][n - 30]
      [] OTHER -> IF FGe(A_par2Of(par), 0) THEN NTable[par][n - 40] ELSE N[n - 40]

\* the entries that do not hold yet what Update() leaves in them
Unwritten == {n \in EntryIdx : Entry(n) # WrittenEntry(n)}

\* the first of them
NextEntry == CHOOSE n \in Unwritten : \A m \in Unwritten : n <= m

\* the two parameter vectors of the racing instance: they differ in A_0^2 and
\* in |lambda_0|, so that Update() has entries of A, B, C, D and of N to write
RacingVectors ==
    {q \in ParamVectors : /\ q[1] = 0 /\ q[2] = One \div 4
                          /\ q[4] = One /\ q[5] = 2 * One
                          /\ \/ (q[0] = Half /\ q[10] = One)
                             \/ (q[0] = One /\ q[10] = Half)}

\* the event the racing thread evaluates
RacingEvents == {ev \in ReaderEvents : ev.costheta_l = 0}

\* the owner sets A_0^2 and |lambda_0| to the values of the other vector once
\* the last Update() has returned, whatever the threads are doing
RacingSet ==
    \E q \in RacingVectors :
        /\ ~stale
        /\ q # par
        /\ par' = q
        /\ stale' = TRUE
        /\ UNCHANGED <<B0sbar, A, B, C, D, N, call, splineVars, scall, rd>>

\* Update() writes its next entry only when no thread is inside a call
UpdateEntryLocked ==
    /\ Quiescent
    /\ stale
    /\ Unwritten # {}
    /\ A' = [A EXCEPT ![NextEntry % 10] =
                IF NextEntry < 10 THEN WrittenEntry(NextEntry) ELSE @]
    /\ B' = [B EXCEPT ![NextEntry % 10] =
                IF NextEntry \in 10 .. 19 THEN WrittenEntry(NextEntry) ELSE @]
    /\ C' = [C EXCEPT ![NextEntry % 10] =
                IF NextEntry \in 20 .. 29 THEN WrittenEntry(NextEntry) ELSE @]
    /\ D' = [D EXCEPT ![NextEntry % 10] =
                IF NextEntry \in 30 .. 39 THEN WrittenEntry(NextEntry) ELSE @]
    /\ N' = [N EXCEPT ![NextEntry % 10] =
                IF NextEntry >= 40 THEN WrittenEntry(NextEntry) ELSE @]
    /\ UNCHANGED <<B0sbar, par, stale, call, splineVars, scall, rd>>

\* Update() writes its next entry: there is no lock to take
UpdateEntry ==
    /\ stale
    /\ Unwritten # {}
    /\ A' = [A EXCEPT ![NextEntry % 10] =
                IF NextEntry < 10 THEN WrittenEntry(NextEntry) ELSE @]
    /\ B' = [B EXCEPT ![NextEntry % 10] =
                IF NextEntry \in 10 .. 19 THEN WrittenEntry(NextEntry) ELSE @]
    /\ C' = [C EXCEPT ![NextEntry % 10] =
                IF NextEntry \in 20 .. 29 THEN WrittenEntry(NextEntry) ELSE @]
    /\ D' = [D EXCEPT ![NextEntry % 10] =
                IF NextEntry \in 30 .. 39 THEN WrittenEntry(NextEntry) ELSE @]
    /\ N' = [N EXCEPT ![NextEntry % 10] =
                IF NextEntry >= 40 THEN WrittenEntry(NextEntry) ELSE @]
    /\ UNCHANGED <<B0sbar, par, stale, call, splineVars, scall, rd>>

\* Update() returns: every entry holds what it derives
UpdateEnd ==
    /\ stale
    /\ Unwritten = {}
    /\ stale' = FALSE
    /\ UNCHANGED <<B0sbar, par, A, B, C, D, N, call, splineVars, scall, rd>>

InitRacing ==
    /\ B0sbar = TRUE
    /\ InitPhis(RacingVectors)
    /\ InitSpline(StandBy)
    /\ rd = [r \in Readers |-> NotReading]

NextRacing ==
    \/ RacingSet
    \/ UpdateEntry
    \/ UpdateEnd
    \/ EvaluateBeginWith("r1", RacingEvents)
    \/ EvaluateStep("r1")
    \/ EvaluateEnd("r1")
    \/ ReaderReturn("r1")

SpecRacing == InitRacing /\ [][NextRacing]_vars

(***************************************************************************)
(*          A spline as the constructors build it from any input           *)
(***************************************************************************)

\* knot vectors that start at 1, that repeat the last knot and that have the
\* last two knots out of order
ShiftedKnots == [i \in KnotIdx |-> (i + 1) * One]

RepeatedKnots ==
    [i \in KnotIdx |-> IF i = nKnots - 1 THEN (nKnots - 2) * One ELSE i * One]

SwappedKnots ==
    [i \in KnotIdx |-> IF i = nKnots - 1 THEN (nKnots - 2) * One - Half ELSE i * One]

\* the knot vectors the constructors are given
KnotInputs == KnotVectors \cup {ShiftedKnots, RepeatedKnots, SwappedKnots}

\* coefficients of a negative efficiency, of one that ends flat and of one
\* whose values are near 1e-9
NegativeList == [i \in 0 .. nKnots + 1 |-> -One]

FlatEndList ==
    [i \in 0 .. nKnots + 1 |->
        IF i >= nKnots THEN One ELSE IF i = nKnots - 1 THEN Half ELSE 0]

SmallList == [i \in 0 .. nKnots + 1 |-> IF i < nKnots - 1 THEN 0 ELSE 2 * Tiny]

\* coefficients of an efficiency that falls below zero before the last knot
DippingList == [i \in 0 .. nKnots + 1 |-> (nKnots - 1 - i) * Half]

\* the std::initializer_list of length len that starts with the values of b
ListOf(b, len) ==
    [i \in 1 .. len |-> IF i - 1 <= nKnots + 1 THEN b[i - 1] ELSE One]

\* the initializer lists the constructor is given: of nKnots+2 values, and
\* one value short and one value long
ListInputs ==
    {ListOf(b, nKnots + 2) :
        b \in CoefficientLists
                \cup {NegativeList, FlatEndList, SmallList, DippingList}}
    \cup {ListOf(NegativeList, nKnots + 1), ListOf(FlatEndList, nKnots + 3)}

\* *(SplineCoefficients.begin() + i): past the end of the list the read is
\* undefined and yields g
ListRead(list, i, g) == IF i < Len(list) THEN list[i + 1] ELSE g

\* b[0 .. nKnots+1] as the constructor fills it from the list
ListCoefficients(list, g) == [i \in 0 .. nKnots + 1 |-> ListRead(list, i, g)]

\* CubicSpline(knots, SplineCoefficients): there is no other outcome than
\* the object; gb is what the reads past the list yield, g what xNegative holds
\* when it is not written
CubicSpline(knots, list, gb, g) ==
    [knots |-> knots, list |-> list,
     object |-> SplineConstructed(knots, ListCoefficients(list, gb), g)]

\* the constructions of the model, tabulated
Constructions ==
    {CubicSpline(k, l, gb, g) :
        k \in KnotInputs, l \in ListInputs, gb \in {NaN, Half}, g \in {NaN, 0}}

ConstructedSplines == {c.object : c \in Constructions}

\* the constructor has returned to its caller
Built(c) ==
    [called |-> TRUE, op |-> "CubicSpline",
     x |-> [knots |-> c.knots, list |-> c.list], ret |-> "object"]

\* the parameters of the PhisSignal that stands by
StandByVectors == {q \in ReaderVectors : q[0] = Half}

InitConstructed ==
    /\ B0sbar = FALSE
    /\ InitPhis(StandByVectors)
    /\ \E c \in Constructions :
          /\ u = c.object.u
          /\ AS = c.object.AS
          /\ NegativePart = c.object.NegativePart
          /\ xNegative = c.object.xNegative
          /\ factorial = c.object.factorial
          /\ scall = Built(c)
    /\ rd = [r \in Readers |-> NotReading]

\* the spline is assigned another constructed spline
SplineAssignConstructed == SplineAssignFrom(ConstructedSplines)

NextSpline ==
    \/ FindKnotCall
    \/ CSplineEvalCall
    \/ SplineReturn
    \/ SplineAssignConstructed

SpecSpline == InitConstructed /\ [][NextSpline]_vars

(***************************************************************************)
(*                 The convolutions of Functions.h                         *)
(***************************************************************************)

\* hydra::math_constants::sqrt2
sqrt2 == 1414

\* the factor 0.25 of the pointwise convolutions
Quarter == One \div 4

\* 2/sqrt(pi), the factor of the series of erf
TwoOverSqrtPi == 1128

\* hydra::complex<double>
Complex == [re : Int, im : Int]

Cx(re, im) == [re |-> re, im |-> im]

\* the imaginary unit I(0.0, 1.0)
I == Cx(0, One)

CNaN == Cx(NaN, NaN)

CAddOf[z \in Complex, w \in Complex] == Cx(FAdd(z.re, w.re), FAdd(z.im, w.im))

CAdd(z, w) == CAddOf[z, w]

CSubOf[z \in Complex, w \in Complex] == Cx(FSub(z.re, w.re), FSub(z.im, w.im))

CSub(z, w) == CSubOf[z, w]

CMulOf[z \in Complex, w \in Complex] ==
    Cx(FSub(FMul(z.re, w.re), FMul(z.im, w.im)),
       FAdd(FMul(z.re, w.im), FMul(z.im, w.re)))

CMul(z, w) == CMulOf[z, w]

\* complex * double and complex / int, part by part
CScaleOf[z \in Complex, x \in Int] == Cx(FMul(z.re, x), FMul(z.im, x))

CScale(z, x) == CScaleOf[z, x]

CMulIntOf[z \in Complex, n \in Int] == Cx(FMulInt(z.re, n), FMulInt(z.im, n))

CMulInt(z, n) == CMulIntOf[z, n]

\* z / w = z * conj(w) / |w|^2: NaN parts for 0 / 0
CDivOf[z \in Complex, w \in Complex] ==
    Cx(FDiv(FAdd(FMul(z.re, w.re), FMul(z.im, w.im)),
            FAdd(FMul(w.re, w.re), FMul(w.im, w.im))),
       FDiv(FSub(FMul(z.im, w.re), FMul(z.re, w.im)),
            FAdd(FMul(w.re, w.re), FMul(w.im, w.im))))

CDiv(z, w) == CDivOf[z, w]

\* hydra::exp(z) = exp(re) (cos(im) + i sin(im))
CExpOf[z \in Complex] ==
    Cx(FMul(Exp(z.re), Cos(z.im)), FMul(Exp(z.re), Sin(z.im)))

CExp(z) == CExpOf[z]

\* the term of x^(2k+1) of the series of erf: term z2 / k, with the sign turned
ErfTermOf[z2 \in Complex, k \in Int, term \in Complex] ==
    Cx(TruncDiv(-CMul(term, z2).re, k), TruncDiv(-CMul(term, z2).im, k))

\* sum over k of (-1)^k z^(2k+1) / (k! (2k+1)), k up to SeriesTerms
ErfSeriesOf[z2 \in Complex, k \in Int, term \in Complex, acc \in Complex] ==
    IF k > SeriesTerms THEN acc
    ELSE ErfSeriesOf[z2, k + 1, ErfTermOf[z2, k, term],
                     Cx(acc.re + TruncDiv(ErfTermOf[z2, k, term].re, 2 * k + 1),
                        acc.im + TruncDiv(ErfTermOf[z2, k, term].im, 2 * k + 1))]

\* faddeeva::erf of a complex argument: the error function continued
\* analytically, 1 and -1 at the two ends of the real axis
CErfOf[z \in Complex] ==
    IF IsNaN(z.re) \/ IsNaN(z.im) \/ IsInf(z.im) THEN CNaN
    ELSE IF IsInf(z.re) THEN Cx(Sgn(z.re) * One, 0)
    ELSE CScale(ErfSeriesOf[CMul(z, z), 1, z, z], TwoOverSqrtPi)

CErf(z) == CErfOf[z]

\* faddeeva::erfc of a complex argument: 1 - erf(z)
CErfc(z) == CSub(Cx(One, 0), CErf(z))

\* faddeeva::erf and faddeeva::erfc of a double
Erf(x) == CErf(Cx(x, 0)).re

Erfc(x) == FSub(One, Erf(x))

\* x = (time - mu)/(sigma*sqrt2)
ScaledTime(time, mu, sigma) == FDiv(FSub(time, mu), FMul(sigma, sqrt2))

\* z = c*sigma/sqrt2
ScaledRate(c, sigma) == FDiv(FMul(c, sigma), sqrt2)

\* ::exp( z*z - 2*z*x ) * faddeeva::erfc(z-x) of doubles
faddeeva_zOf[z \in Int, x \in Int] ==
    FMul(Exp(FSub(FMul(z, z), FMul(FMulInt(z, 2), x))), Erfc(FSub(z, x)))

faddeeva_z(z, x) == faddeeva_zOf[z, x]

\* hydra::exp( z*z - 2*z*x ) * faddeeva::erfc(z-x) of a complex z
complex_faddeeva_zOf[z \in Complex, x \in Int] ==
    CMul(CExp(CSub(CMul(z, z), CScale(CMulInt(z, 2), x))),
         CErfc(Cx(FSub(z.re, x), z.im)))

complex_faddeeva_z(z, x) == complex_faddeeva_zOf[z, x]

\* the pointwise convolution that selects cosh on tag = 1 and sinh on tag = -1
Convoluted_exp_sinhcoshUnit(time, a, b, mu, sigma, tag) ==
    IF tag = 1
    THEN FMul(Quarter,
              FAdd(faddeeva_z(ScaledRate(FSub(a, b), sigma), ScaledTime(time, mu, sigma)),
                   faddeeva_z(ScaledRate(FAdd(a, b), sigma), ScaledTime(time, mu, sigma))))
    ELSE IF tag = -1
    THEN FMul(Quarter,
              FSub(faddeeva_z(ScaledRate(FSub(a, b), sigma), ScaledTime(time, mu, sigma)),
                   faddeeva_z(ScaledRate(FAdd(a, b), sigma), ScaledTime(time, mu, sigma))))
    ELSE 0

\* Convoluted_exp_sinhcosh(time, a, b, mu, sigma, tag)
Convoluted_exp_sinhcosh(time, a, b, mu, sigma, tag) ==
    IF tag > 0
    THEN FMul(Quarter,
              FAdd(faddeeva_z(ScaledRate(FSub(a, b), sigma), ScaledTime(time, mu, sigma)),
                   faddeeva_z(ScaledRate(FAdd(a, b), sigma), ScaledTime(time, mu, sigma))))
    ELSE IF tag < 0
    THEN FMul(Quarter,
              FSub(faddeeva_z(ScaledRate(FSub(a, b), sigma), ScaledTime(time, mu, sigma)),
                   faddeeva_z(ScaledRate(FAdd(a, b), sigma), ScaledTime(time, mu, sigma))))
    ELSE 0

\* z1( a*sigma/sqrt2, -b*sigma/sqrt2 ) and z2( a*sigma/sqrt2, b*sigma/sqrt2 )
ComplexZ1(a, b, sigma) == Cx(ScaledRate(a, sigma), ScaledRate(FNeg(b), sigma))

ComplexZ2(a, b, sigma) == Cx(ScaledRate(a, sigma), ScaledRate(b, sigma))

\* Convoluted_exp_sincos taking the cos branch for tag = 0 as well
Convoluted_exp_sincosFromZero(time, a, b, mu, sigma, tag) ==
    IF tag >= 0
    THEN FMul(Quarter,
              CAdd(complex_faddeeva_z(ComplexZ1(a, b, sigma), ScaledTime(time, mu, sigma)),
                   complex_faddeeva_z(ComplexZ2(a, b, sigma), ScaledTime(time, mu, sigma))).re)
    ELSE FMul(Quarter,
              CDiv(CSub(complex_faddeeva_z(ComplexZ1(a, b, sigma), ScaledTime(time, mu, sigma)),
                        complex_faddeeva_z(ComplexZ2(a, b, sigma), ScaledTime(time, mu, sigma))),
                   I).re)

\* Convoluted_exp_sincos(time, a, b, mu, sigma, tag)
Convoluted_exp_sincos(time, a, b, mu, sigma, tag) ==
    IF tag > 0
    THEN FMul(Quarter,
              CAdd(complex_faddeeva_z(ComplexZ1(a, b, sigma), ScaledTime(time, mu, sigma)),
                   complex_faddeeva_z(ComplexZ2(a, b, sigma), ScaledTime(time, mu, sigma))).re)
    ELSE IF tag < 0
    THEN FMul(Quarter,
              CDiv(CSub(complex_faddeeva_z(ComplexZ1(a, b, sigma), ScaledTime(time, mu, sigma)),
                        complex_faddeeva_z(ComplexZ2(a, b, sigma), ScaledTime(time, mu, sigma))),
                   I).re)
    ELSE 0

\* erf(x2) - f(z, x2) - ( erf(x1) - f(z, x1) ), divided by z
cumulative_zOf[z \in Int, x1 \in Int, x2 \in Int] ==
    FDiv(FSub(FSub(Erf(x2), faddeeva_z(z, x2)), FSub(Erf(x1), faddeeva_z(z, x1))), z)

cumulative_z(z, x1, x2) == cumulative_zOf[z, x1, x2]

\* Integrated_convoluted_exp_sinhcosh(time, a, b, mu, sigma, LowerLimit,
\* UpperLimit, tag)
Integrated_convoluted_exp_sinhcosh(time, a, b, mu, sigma, LowerLimit, UpperLimit, tag) ==
    IF tag > 0
    THEN FAdd(cumulative_z(ScaledRate(FSub(a, b), sigma),
                           ScaledTime(LowerLimit, mu, sigma), ScaledTime(UpperLimit, mu, sigma)),
              cumulative_z(ScaledRate(FAdd(a, b), sigma),
                           ScaledTime(LowerLimit, mu, sigma), ScaledTime(UpperLimit, mu, sigma)))
    ELSE IF tag < 0
    THEN FSub(cumulative_z(ScaledRate(FSub(a, b), sigma),
                           ScaledTime(LowerLimit, mu, sigma), ScaledTime(UpperLimit, mu, sigma)),
              cumulative_z(ScaledRate(FAdd(a, b), sigma),
                           ScaledTime(LowerLimit, mu, sigma), ScaledTime(UpperLimit, mu, sigma)))
    ELSE 0

\* erf(x2) - f(z, x2) - ( erf(x1) - f(z, x1) ) of a complex z
complex_cumulative_zOf[z \in Complex, x1 \in Int, x2 \in Int] ==
    CSub(CSub(Cx(Erf(x2), 0), complex_faddeeva_z(z, x2)),
         CSub(Cx(Erf(x1), 0), complex_faddeeva_z(z, x1)))

complex_cumulative_z(z, x1, x2) == complex_cumulative_zOf[z, x1, x2]

\* the cumulative term left undivided
CumulativeUndivided(z, x1, x2) == complex_cumulative_z(z, x1, x2)

\* cumulative_z / z
CumulativeOverZ(z, x1, x2) == CDiv(complex_cumulative_z(z, x1, x2), z)

\* Integrated_convoluted_exp_sincos(time, a, b, mu, sigma, LowerLimit,
\* UpperLimit, tag)
Integrated_convoluted_exp_sincos(time, a, b, mu, sigma, LowerLimit, UpperLimit, tag) ==
    IF tag > 0
    THEN CAdd(CumulativeOverZ(ComplexZ1(a, b, sigma),
                              ScaledTime(LowerLimit, mu, sigma), ScaledTime(UpperLimit, mu, sigma)),
              CumulativeOverZ(ComplexZ2(a, b, sigma),
                              ScaledTime(LowerLimit, mu, sigma), ScaledTime(UpperLimit, mu, sigma))).re
    ELSE IF tag < 0
    THEN CDiv(CSub(CumulativeOverZ(ComplexZ1(a, b, sigma),
                                   ScaledTime(LowerLimit, mu, sigma), ScaledTime(UpperLimit, mu, sigma)),
                   CumulativeOverZ(ComplexZ2(a, b, sigma),
                                   ScaledTime(LowerLimit, mu, sigma), ScaledTime(UpperLimit, mu, sigma))),
              I).re
    ELSE 0

\* the arguments the convolutions are called with: rates a and b with a = b,
\* a = -b and a = b = 0 among them, a resolution sigma that may be 0, tags of
\* either sign and of magnitude 1 and 2
PointArgs ==
    [time : {0, MaxTime * One}, a : {0, Half, One}, b : {-Half, 0, Half},
     mu : {0, Half}, sigma : {0, One}, tag : {-2, -1, 0, 1, 2}]

IntegralArgs ==
    [time : {0}, a : {0, Half, One}, b : {-Half, 0, Half}, mu : {0, Half},
     sigma : {0, One}, LowerLimit : {0},
     UpperLimit : {MaxTime * One, MaxTime * One + Half}, tag : {-2, -1, 0, 1, 2}]

\* the four functions by name, on a record of arguments
Convolution(op, q) ==
    CASE op = "Convoluted_exp_sinhcosh" ->
            Convoluted_exp_sinhcosh(q.time, q.a, q.b, q.mu, q.sigma, q.tag)
      [] op = "Convoluted_exp_sincos" ->
            Convoluted_exp_sincos(q.time, q.a, q.b, q.mu, q.sigma, q.tag)
      [] op = "Integrated_convoluted_exp_sinhcosh" ->
            Integrated_convoluted_exp_sinhcosh(q.time, q.a, q.b, q.mu, q.sigma,
                                               q.LowerLimit, q.UpperLimit, q.tag)
      [] op = "Integrated_convoluted_exp_sincos" ->
            Integrated_convoluted_exp_sincos(q.time, q.a, q.b, q.mu, q.sigma,
                                             q.LowerLimit, q.UpperLimit, q.tag)

\* op(q) is called and returns
ConvolutionCall(op, Q) ==
    \E q \in Q :
        /\ Idle
        /\ scall' = SReturned(op, q, Convolution(op, q))
        /\ UNCHANGED <<phisVars, call, splineVars, rd>>

Convoluted_exp_sinhcoshCall ==
    ConvolutionCall("Convoluted_exp_sinhcosh", PointArgs)

Convoluted_exp_sincosCall ==
    ConvolutionCall("Convoluted_exp_sincos", PointArgs)

Integrated_convoluted_exp_sinhcoshCall ==
    ConvolutionCall("Integrated_convoluted_exp_sinhcosh", IntegralArgs)

Integrated_convoluted_exp_sincosCall ==
    ConvolutionCall("Integrated_convoluted_exp_sincos", IntegralArgs)

InitFunctions ==
    /\ B0sbar = FALSE
    /\ InitPhis(StandByVectors)
    /\ InitSpline(StandBy)
    /\ rd = [r \in Readers |-> NotReading]

NextFunctions ==
    \/ Convoluted_exp_sinhcoshCall
    \/ Convoluted_exp_sincosCall
    \/ Integrated_convoluted_exp_sinhcoshCall
    \/ Integrated_convoluted_exp_sincosCall
    \/ SplineReturn

SpecFunctions == InitFunctions /\ [][NextFunctions]_vars

(***************************************************************************)
(*                     Properties of PhisSignal                            *)
(***************************************************************************)

\* 1 - par[0] - par[1] of the current parameters, which are finite
ClaimApar2 == (One - par[0]) - par[1]

\* C1: whenever 1 - par[0] - par[1] < 0, a call of Evaluate returns exactly
\* 0.0 for every input tuple, whatever the tables A, B, C, D, N hold.
C1_ZeroWhenUnphysical ==
    (call.evaluated /\ ClaimApar2 < 0) => call.res.ret = 0

\* a call made with A_par2 < 0 on tables that hold NaN where Update_NFactors
\* never wrote
C1_Witness ==
    /\ call.evaluated
    /\ ClaimApar2 < 0
    /\ \E k \in K10 : N[k] = NaN
    /\ call.ev.time > 0
    /\ call.res.ret = 0

\* C2: Evaluate never returns a negative number: the value is NaN or >= 0,
\* and it is exactly 0.0 whenever the sum of the ten terms is finite and
\* negative.
C2_NeverNegative ==
    call.evaluated =>
        /\ (call.res.ret = NaN \/ call.res.ret >= 0)
        /\ ((call.res.sum # NaN /\ call.res.sum < 0) => call.res.ret = 0)

\* a call whose sum is finite and negative
C2_Witness ==
    /\ call.evaluated
    /\ call.res.sum # NaN
    /\ call.res.sum < 0
    /\ call.res.ret = 0

\* C3: when A_par2 >= 0 and the sum of the ten terms is NaN, Evaluate reports
\* it and returns NaN: the clamp does not replace it by 0.0.
C3_NaNPropagates ==
    (call.evaluated /\ ClaimApar2 >= 0 /\ call.res.sum = NaN) =>
        (call.res.reported /\ call.res.ret = NaN)

\* a call with A_par2 >= 0 whose sum is NaN
C3_Witness ==
    /\ call.evaluated
    /\ ClaimApar2 >= 0
    /\ ~call.res.guarded
    /\ call.res.sum = NaN
    /\ call.res.ret = NaN

\* the decay factor f0 * exp(-(par[3] + 0.65789) * t) of the call in progress
ClaimDecay == FMul(f0, Exp(FMul(FNeg(FAdd(par[3], GammaOffset)), call.ev.time)))

\* a_k*cosh(t*par[4]/2) + b_k*sinh(t*par[4]/2) of the call in progress
ClaimEven(k) ==
    LET T1 == FMul(FMul(Half, call.ev.time), par[4])
    IN  FAdd(FMul(A[k], Cosh(T1)), FMul(B[k], Sinh(T1)))

\* c_k*cos(t*par[5]) + d_k*sin(t*par[5]) of the call in progress
ClaimOdd(k) ==
    LET T2 == FMul(call.ev.time, par[5])
    IN  FAdd(FMul(C[k], Cos(T2)), FMul(D[k], Sin(T2)))

\* F_k * N_k * TimeFactor_k for the flavour bbar
ClaimTerm(k, bbar) ==
    FMul(FMul(FTable[call.ev][k], N[k]),
         FMul(ClaimDecay,
              IF bbar THEN FSub(ClaimEven(k), ClaimOdd(k))
                      ELSE FAdd(ClaimEven(k), ClaimOdd(k))))

\* the terms 0 .. n-1 added up in the order of the indices
RECURSIVE ClaimSumTo(_, _)
ClaimSumTo(n, bbar) ==
    IF n = 0 THEN 0 ELSE FAdd(ClaimSumTo(n - 1, bbar), ClaimTerm(n - 1, bbar))

\* C4: when A_par2 >= 0 the sum Evaluate computes is the sum over k = 0..9,
\* each index once, of F_k * N_k * TimeFactor_k, where the oscillating part
\* c_k*cos + d_k*sin enters with the sign +1 for B0s and -1 for B0sbar: the
\* two flavours differ in nothing else.
C4_SumOfTenTerms ==
    (call.evaluated /\ ClaimApar2 >= 0) => call.res.sum = ClaimSumTo(10, B0sbar)

\* a B0sbar call with a finite sum that the B0s flavour would not have given
C4_Witness ==
    /\ call.evaluated
    /\ ClaimApar2 >= 0
    /\ B0sbar
    /\ call.res.sum # NaN
    /\ call.res.sum = ClaimSumTo(10, TRUE)
    /\ ClaimSumTo(10, TRUE) # ClaimSumTo(10, FALSE)

\* N is what Update_NFactors derives from the current parameters
ReadyN == ClaimApar2 >= 0 => N = NFactorsOf(par)

\* the tables are those Update() derives from the current parameters
Ready ==
    /\ A = ATCoefficients("A", par)
    /\ B = ATCoefficients("B", par)
    /\ C = ATCoefficients("C", par)
    /\ D = ATCoefficients("D", par)
    /\ ReadyN

\* DeltaGamma = 0, DeltaM = 0 and A_0^2 = 1 the only amplitude, N updated
PureLongitudinal ==
    /\ par[4] = 0
    /\ par[5] = 0
    /\ par[0] = One
    /\ par[1] = 0
    /\ par[2] = 0
    /\ ReadyN

\* C5 as stated: Evaluate = f0 * exp(-DeltaGamma_sd * t) * N_0 * F_0
C5_AsStated ==
    (call.evaluated /\ PureLongitudinal) =>
        call.res.ret =
            FMul(FMul(FMul(f0, Exp(FMul(FNeg(par[3]), call.ev.time))), N[0]),
                 FTable[call.ev][0])

\* the single term left of the sum in the pure longitudinal configuration
ClaimLongitudinal ==
    FMul(FMul(FTable[call.ev][0], N[0]),
         FMul(ClaimDecay,
              FAdd(A[0], FMulInt(C[0], IF B0sbar THEN -1 ELSE 1))))

\* C5, amended: with DeltaGamma = 0, DeltaM = 0, A_0^2 = 1 the only amplitude
\* and N updated from these parameters, Evaluate equals
\* F_0 * N_0 * f0 * exp(-(DeltaGamma_sd + 0.65789) * t) * (a_0 + CP * c_0),
\* or 0.0 if that is negative: no other term and no oscillation contributes.
C5_SingleTerm ==
    (call.evaluated /\ PureLongitudinal) =>
        call.res.ret = IF FLt(ClaimLongitudinal, 0) THEN 0 ELSE ClaimLongitudinal

\* a call at t > 0 in that configuration, with a_0 + CP * c_0 # 1
C5_Witness ==
    /\ call.evaluated
    /\ PureLongitudinal
    /\ call.ev.time > 0
    /\ call.res.ret > 0
    /\ FAdd(A[0], FMulInt(C[0], IF B0sbar THEN -1 ELSE 1)) # One

\* the entries Update_NFactors assigns, from the current parameters
ClaimN ==
    [k \in K10 |->
        CASE k = 0 -> par[0]
          [] k = 1 -> ClaimApar2
          [] k = 2 -> par[1]
          [] k = 3 -> FSqrt(FMul(par[1], ClaimApar2))
          [] k = 4 -> FSqrt(FMul(par[0], ClaimApar2))
          [] k = 5 -> FSqrt(FMul(par[0], par[1]))
          [] k = 6 -> par[2]
          [] k = 7 -> FSqrt(FMul(par[2], ClaimApar2))
          [] k = 8 -> FSqrt(FMul(par[2], par[1]))
          [] k = 9 -> FSqrt(FMul(par[2], par[0]))]

\* C6: Update_NFactors, the second half of Update(), leaves the ten entries of
\* N as they were whenever A_par2 < 0, and writes all ten when A_par2 >= 0.
C6_NFactorsGuard ==
    [][Update => /\ ClaimApar2 < 0 => N' = N
                 /\ ClaimApar2 >= 0 => N' = ClaimN]_vars

\* Update() was called with A_par2 < 0 on an instance whose N had been derived
\* from other parameters: N still holds the earlier values
C6_Witness ==
    /\ ~stale
    /\ ClaimApar2 < 0
    /\ par[0] = One
    /\ N[0] = Half
    /\ N[2] = Half

\* C7 as stated: after an Update() with A_par2 >= 0 every N_k is a
\* non-negative real number
C7_AsStated ==
    (~stale /\ ClaimApar2 >= 0) => \A k \in K10 : N[k] # NaN /\ N[k] >= 0

\* r is the square root of the product x * y, rounded down
ClaimIsRoot(r, x, y) ==
    /\ r # NaN
    /\ r >= 0
    /\ r * r <= FMul(x, y) * One
    /\ (r + 1) * (r + 1) > FMul(x, y) * One

\* C7, amended: after an Update() with A_par2 >= 0 and par[0], par[1],
\* par[2] >= 0, every N_k is a non-negative real number: N_0 = par[0],
\* N_1 = A_par2, N_2 = par[1], N_6 = par[2] and the others are the square
\* roots of the pairwise products.
C7_NonNegativeWeights ==
    (~stale /\ ClaimApar2 >= 0 /\ par[0] >= 0 /\ par[1] >= 0 /\ par[2] >= 0) =>
        /\ \A k \in K10 : N[k] # NaN /\ N[k] >= 0
        /\ N[0] = par[0]
        /\ N[1] = ClaimApar2
        /\ N[2] = par[1]
        /\ N[6] = par[2]
        /\ ClaimIsRoot(N[3], par[1], ClaimApar2)
        /\ ClaimIsRoot(N[4], par[0], ClaimApar2)
        /\ ClaimIsRoot(N[5], par[0], par[1])
        /\ ClaimIsRoot(N[7], par[2], ClaimApar2)
        /\ ClaimIsRoot(N[8], par[2], par[1])
        /\ ClaimIsRoot(N[9], par[2], par[0])

\* an updated instance with three non-zero amplitudes and A_par2 > 0
C7_Witness ==
    /\ ~stale
    /\ ClaimApar2 > 0
    /\ par[0] > 0
    /\ par[2] > 0
    /\ N[4] > 0
    /\ N[9] > 0
    /\ N[9] # FMul(par[2], par[0])

\* C8: Update() is the only operation that derives the tables (an assignment
\* copies tables that an Update() derived): a call of Evaluate changes neither
\* the parameters nor A, B, C, D, N, and while the parameters stay as they are
\* tables that do not match them match them again only by an Update().
C8_OnlyUpdateDerives ==
    [][/\ tables' # tables => Update \/ Assign
       /\ (call'.evaluated /\ ~call.evaluated) => (tables' = tables /\ par' = par)
       /\ (~Ready /\ Ready' /\ par' = par) => Update \/ Assign]_vars

\* a call of Evaluate on stale tables: it returned the value of the tables of
\* the last Update(), not the value the current parameters would give
C8_Witness ==
    /\ stale
    /\ ~Ready
    /\ call.evaluated
    /\ call.res.ret # NaN
    /\ call.res.ret # Evaluate(Updated(This), CPOf(B0sbar), call.ev).ret

(***************************************************************************)
(*                  Properties of the read operations                      *)
(***************************************************************************)

\* C9: the read operations are pure: a call of Evaluate leaves the 17
\* parameters and the tables A, B, C, D, N as they are, and a call of findKnot
\* or CSplineEval leaves u, AS, NegativePart, xNegative and factorial as they
\* are; only an assignment of the whole object changes the spline, and only
\* Update() or an assignment changes the tables of the PhisSignal.
C9_ReadsArePure ==
    [][/\ (call'.evaluated /\ ~call.evaluated) => (par' = par /\ tables' = tables)
       /\ (scall'.called /\ ~scall.called) => splineVars' = splineVars
       /\ splineVars' # splineVars => SplineAssign
       /\ tables' # tables => Update \/ Assign]_vars

\* CSplineEval has returned the value of a cubic of a spline that an
\* assignment installed, on tables that an Update() derived
C9_Witness ==
    /\ scall.called
    /\ scall.op = "CSplineEval"
    /\ scall.ret # SmallPositive
    /\ scall.ret > 0
    /\ NegativePart
    /\ par[1] = Half
    /\ ~stale

\* the value the call of the thread r returns when it runs alone in the
\* current state
ClaimAlone(r) ==
    IF rd[r].op = "Evaluate"
    THEN Evaluate(This, CPOf(B0sbar), rd[r].ev).ret
    ELSE CSplineEval(ThisSpline, rd[r].x)

\* C10: when calls of Evaluate and CSplineEval run concurrently on the same
\* instances and no Update() overlaps them, each call returns the value it
\* returns when run alone in that state, whatever the interleaving: the value
\* depends only on the inputs of the call and on the state of the instance.
C10_ReadersAgree ==
    \A r \in Readers : rd[r].pc = "done" => rd[r].ret = ClaimAlone(r)

\* two calls of Evaluate with different events have overlapped, run to their
\* ends and returned different values, one of them the sum of its ten terms
C10_Witness ==
    /\ rd["r1"].pc = "done"
    /\ rd["r2"].pc = "done"
    /\ rd["r1"].op = "Evaluate"
    /\ rd["r2"].op = "Evaluate"
    /\ rd["r1"].ev # rd["r2"].ev
    /\ rd["r1"].i = 10
    /\ rd["r2"].i = 10
    /\ rd["r1"].ret > 0
    /\ rd["r2"].ret # NaN
    /\ rd["r1"].ret # rd["r2"].ret

(***************************************************************************)
(*                     Properties of CubicSpline                           *)
(***************************************************************************)

\* the index of the last interval, that of the linear extrapolation
ClaimLast == nKnots - 1

ClaimNonDecreasing == \A i \in 0 .. nKnots - 2 : u[3 + i] <= u[4 + i]

ClaimIncreasing == \A i \in 0 .. nKnots - 2 : u[3 + i] < u[4 + i]

\* CSplineEval has returned for an argument at or beyond the last knot
ClaimBeyondLastKnot ==
    /\ scall.called
    /\ scall.op = "CSplineEval"
    /\ scall.x >= u[nKnots + 2]

\* C12: for every constructed spline and every x at or beyond the last knot,
\* CSplineEval(x) is never negative.
C12_AsStated ==
    (ClaimIncreasing /\ ClaimBeyondLastKnot) => ~(scall.ret # NaN /\ scall.ret < 0)

\* the largest index whose knot is <= x, and 0 when x is below the first knot
ClaimKnot(x) ==
    LET below == {i \in KnotIdx : u[3 + i] <= x}
    IN  IF below = {} THEN 0 ELSE CHOOSE i \in below : \A k \in below : k <= i

\* AS[0][j] + AS[1][j]x + AS[2][j]x^2 + AS[3][j]x^3
ClaimCubic(j, x) ==
    FAdd(FAdd(FAdd(AS[0][j], FMul(AS[1][j], x)), FMul(FMul(AS[2][j], x), x)),
         FMul(FMul(FMul(AS[3][j], x), x), x))

\* CSplineEval is outside the clamp case at x
ClaimUnclamped(x) == ~(NegativePart /\ xNegative # NaN /\ x > xNegative)

\* C13: for a non-decreasing knot vector findKnot(x) returns the largest index
\* i in 0..nKnots-1 whose knot is <= x, and 0 when x is below the first knot
\* (so x equal to an interior knot i gets the interval i, and every x at or
\* beyond the last knot the interval nKnots-1), and CSplineEval, outside the
\* clamp case, returns AS[0][j] + AS[1][j]x + AS[2][j]x^2 + AS[3][j]x^3 for
\* that j.
C13_FindKnotLargest ==
    (ClaimNonDecreasing /\ scall.called) =>
        /\ scall.op = "findKnot" => scall.ret = ClaimKnot(scall.x)
        /\ (scall.op = "findKnot" /\ scall.x < u[3]) => scall.ret = 0
        /\ (scall.op = "findKnot" /\ scall.x >= u[nKnots + 2]) =>
                scall.ret = nKnots - 1
        /\ (scall.op = "findKnot" /\ ClaimIncreasing) =>
                \A i \in 1 .. nKnots - 2 : scall.x = u[3 + i] => scall.ret = i
        /\ (scall.op = "CSplineEval" /\ ClaimUnclamped(scall.x)) =>
                scall.ret = ClaimCubic(ClaimKnot(scall.x), scall.x)

\* findKnot has returned the interval above an interior knot for an argument
\* equal to that knot
C13_Witness ==
    /\ ClaimIncreasing
    /\ scall.called
    /\ scall.op = "findKnot"
    /\ scall.x = u[4]
    /\ scall.ret = 1
    /\ AS[3][0] # AS[3][1]

\* the cubic of the interval j has finite coefficients
ClaimFiniteCubic(j) == \A r \in 0 .. 3 : Finite(AS[r][j])

\* the derivative AS[1][j] + 2 AS[2][j] x + 3 AS[3][j] x^2 of the cubic of j
ClaimSlope(j, x) ==
    FAdd(FAdd(AS[1][j], FMul(FMulInt(AS[2][j], 2), x)),
         FMul(FMul(FMulInt(AS[3][j], 3), x), x))

\* C14: the last interval is purely linear and joins the cubic of the interval
\* nKnots-2 with its value and its slope at the last knot v:
\* AS[2][nKnots-1] = AS[3][nKnots-1] = 0, AS[1][nKnots-1] is the derivative of
\* that cubic at v and AS[0][nKnots-1] + AS[1][nKnots-1]*v is its value at v.
C14_LinearExtrapolation ==
    /\ AS[2][ClaimLast] = 0
    /\ AS[3][ClaimLast] = 0
    /\ ClaimFiniteCubic(nKnots - 2) =>
        /\ AS[1][ClaimLast] = ClaimSlope(nKnots - 2, u[nKnots + 2])
        /\ FAdd(AS[0][ClaimLast], FMul(AS[1][ClaimLast], u[nKnots + 2]))
                = ClaimCubic(nKnots - 2, u[nKnots + 2])

\* a spline of increasing knots whose last cubic has a quadratic and a cubic
\* term and a slope at the last knot that is not the coefficient AS[1] of it
C14_Witness ==
    /\ ClaimIncreasing
    /\ ClaimFiniteCubic(nKnots - 2)
    /\ AS[2][nKnots - 2] # 0
    /\ AS[3][nKnots - 2] # 0
    /\ AS[1][ClaimLast] # 0
    /\ AS[1][ClaimLast] # AS[1][nKnots - 2]
    /\ AS[0][ClaimLast] # AS[0][nKnots - 2]

\* the coefficient v is exactly 0 or has a magnitude of at least 1e-9
ClaimSnapped(v) == v = 0 \/ v >= Tiny \/ v <= -Tiny

\* C15: every coefficient AS[r][i] the constructor stores, those of the last
\* interval included, is exactly 0 or has a magnitude of at least 1e-9.
C15_AsStated ==
    (ClaimIncreasing /\ \A i \in KnotIdx : ClaimFiniteCubic(i)) =>
        \A r \in 0 .. 3 : \A i \in KnotIdx : ClaimSnapped(AS[r][i])

\* the input of a construction is malformed: the knots are not increasing or
\* the list has not nKnots+2 coefficients
ClaimMalformed(x) ==
    \/ \E i \in 0 .. nKnots - 2 : x.knots[i] >= x.knots[i + 1]
    \/ Len(x.list) # nKnots + 2

\* C16: constructing a CubicSpline from malformed input (knots that are not
\* increasing, or a list whose length is not nKnots+2) fails with a
\* construction error, and no spline of such knots is there to be evaluated.
C16_AsStated ==
    /\ (scall.called /\ scall.op = "CubicSpline" /\ ClaimMalformed(scall.x)) =>
            scall.ret = "construction error"
    /\ (scall.called /\ scall.op = "CSplineEval") => ClaimIncreasing

\* the distance between two values
ClaimDistance(v, w) == IF v >= w THEN v - w ELSE w - v

\* the cubics of the intervals i-1 and i agree at the knot i to 1e-9
ClaimJoined(i) ==
    ClaimDistance(ClaimCubic(i - 1, u[3 + i]), ClaimCubic(i, u[3 + i])) <= Tiny

\* C17: for every constructed spline the cubics of the intervals i-1 and i,
\* built from the stored (snapped) coefficients, take the same value at every
\* interior knot k_i, 0 < i < nKnots-1, to 1e-9.
C17_AsStated ==
    (ClaimIncreasing /\ \A i \in KnotIdx : ClaimFiniteCubic(i)) =>
        \A i \in 1 .. nKnots - 2 :
            (Finite(ClaimCubic(i - 1, u[3 + i])) /\ Finite(ClaimCubic(i, u[3 + i])))
                => ClaimJoined(i)

(***************************************************************************)
(*                 Properties of the convolutions                          *)
(***************************************************************************)

\* a convolution has returned
ClaimConvolved(op) == scall.called /\ scall.op = op

\* C18: the integrated convolutions with z = 0 (a = b or a = -b for
\* sinhcosh, a = 0 and b = 0 for sincos), sigma > 0 and finite limits return
\* a finite value.
C18_AsStated ==
    /\ (/\ ClaimConvolved("Integrated_convoluted_exp_sinhcosh")
        /\ scall.x.sigma > 0
        /\ (scall.x.a = scall.x.b \/ scall.x.a = -scall.x.b)) => Finite(scall.ret)
    /\ (/\ ClaimConvolved("Integrated_convoluted_exp_sincos")
        /\ scall.x.sigma > 0
        /\ scall.x.a = 0
        /\ scall.x.b = 0) => Finite(scall.ret)

\* the names of the four convolutions, and of the two trigonometric ones
ClaimOps ==
    {"Convoluted_exp_sinhcosh", "Convoluted_exp_sincos",
     "Integrated_convoluted_exp_sinhcosh", "Integrated_convoluted_exp_sincos"}

ClaimTrig == {"Convoluted_exp_sincos", "Integrated_convoluted_exp_sincos"}

\* C19: with sigma = 0 each of the four convolutions returns a value, the
\* limit of the convolution, and no Inf or NaN of a division by sigma.
C19_AsStated ==
    (scall.called /\ scall.op \in ClaimOps /\ scall.x.sigma = 0) =>
        Finite(scall.ret)

\* the z1 term and the z2 term the function op combines for the arguments q
ClaimZ1Term(op, q) ==
    CASE op = "Convoluted_exp_sinhcosh" ->
            Cx(faddeeva_z(ScaledRate(FSub(q.a, q.b), q.sigma),
                          ScaledTime(q.time, q.mu, q.sigma)), 0)
      [] op = "Convoluted_exp_sincos" ->
            complex_faddeeva_z(ComplexZ1(q.a, q.b, q.sigma),
                               ScaledTime(q.time, q.mu, q.sigma))
      [] op = "Integrated_convoluted_exp_sinhcosh" ->
            Cx(cumulative_z(ScaledRate(FSub(q.a, q.b), q.sigma),
                            ScaledTime(q.LowerLimit, q.mu, q.sigma),
                            ScaledTime(q.UpperLimit, q.mu, q.sigma)), 0)
      [] op = "Integrated_convoluted_exp_sincos" ->
            CumulativeOverZ(ComplexZ1(q.a, q.b, q.sigma),
                            ScaledTime(q.LowerLimit, q.mu, q.sigma),
                            ScaledTime(q.UpperLimit, q.mu, q.sigma))

ClaimZ2Term(op, q) ==
    CASE op = "Convoluted_exp_sinhcosh" ->
            Cx(faddeeva_z(ScaledRate(FAdd(q.a, q.b), q.sigma),
                          ScaledTime(q.time, q.mu, q.sigma)), 0)
      [] op = "Convoluted_exp_sincos" ->
            complex_faddeeva_z(ComplexZ2(q.a, q.b, q.sigma),
                               ScaledTime(q.time, q.mu, q.sigma))
      [] op = "Integrated_convoluted_exp_sinhcosh" ->
            Cx(cumulative_z(ScaledRate(FAdd(q.a, q.b), q.sigma),
                            ScaledTime(q.LowerLimit, q.mu, q.sigma),
                            ScaledTime(q.UpperLimit, q.mu, q.sigma)), 0)
      [] op = "Integrated_convoluted_exp_sincos" ->
            CumulativeOverZ(ComplexZ2(q.a, q.b, q.sigma),
                            ScaledTime(q.LowerLimit, q.mu, q.sigma),
                            ScaledTime(q.UpperLimit, q.mu, q.sigma))

\* the factor in front of the combination: 0.25 pointwise, none integrated
ClaimFactor(op) ==
    IF op \in {"Convoluted_exp_sinhcosh", "Convoluted_exp_sincos"}
    THEN Quarter ELSE One

\* the symmetric and the antisymmetric combination of the two terms
ClaimSymmetric(op, q) ==
    FMul(ClaimFactor(op), CAdd(ClaimZ1Term(op, q), ClaimZ2Term(op, q)).re)

ClaimAntisymmetric(op, q) ==
    FMul(ClaimFactor(op),
         IF op \in ClaimTrig
         THEN CDiv(CSub(ClaimZ1Term(op, q), ClaimZ2Term(op, q)), I).re
         ELSE CSub(ClaimZ1Term(op, q), ClaimZ2Term(op, q)).re)

\* C20: in all four convolutions only the sign of tag selects the variant:
\* tag > 0 returns the symmetric combination of the z1 and z2 terms, tag < 0
\* the antisymmetric one (divided by i in the trigonometric functions), the
\* integrated forms select as the pointwise ones, and a tag of another
\* magnitude and the same sign returns the same value.
C20_TagSign ==
    (scall.called /\ scall.op \in ClaimOps /\ scall.x.tag # 0) =>
        /\ scall.x.tag > 0 => scall.ret = ClaimSymmetric(scall.op, scall.x)
        /\ scall.x.tag < 0 => scall.ret = ClaimAntisymmetric(scall.op, scall.x)
        /\ scall.ret = Convolution(scall.op, [scall.x EXCEPT !.tag = Sgn(@)])

\* an integrated trigonometric convolution has returned for tag = -2 a finite
\* value that is not the one of the symmetric variant
C20_Witness ==
    /\ ClaimConvolved("Integrated_convoluted_exp_sincos")
    /\ scall.x.tag = -2
    /\ Finite(scall.ret)
    /\ scall.ret # 0
    /\ scall.ret # Convolution(scall.op, [scall.x EXCEPT !.tag = 2])

\* v and w agree to one percent of the larger one, the tolerance that the
\* roundings of the complex quotient by z are allowed
ClaimClose(v, w) ==
    ClaimDistance(v, w) * 100 <= (IF Abs(v) >= Abs(w) THEN Abs(v) ELSE Abs(w))

\* the real-only integrated form on the arguments of the last call
ClaimRealForm ==
    Integrated_convoluted_exp_sinhcosh(scall.x.time, scall.x.a, scall.x.b,
        scall.x.mu, scall.x.sigma, scall.x.LowerLimit, scall.x.UpperLimit,
        scall.x.tag)

ClaimPointwise(op, q, t) ==
    IF op = "Integrated_convoluted_exp_sinhcosh"
    THEN Convoluted_exp_sinhcosh(t, q.a, q.b, q.mu, q.sigma, q.tag)
    ELSE Convoluted_exp_sincos(t, q.a, q.b, q.mu, q.sigma, q.tag)

\* the number of steps of a quarter between the limits of q
ClaimSteps(q) == (q.UpperLimit - q.LowerLimit) \div Quarter

\* the weight 1, 4, 2, .., 4, 1 of the point i in Simpson's rule
ClaimWeight(q, i) ==
    IF i = 0 \/ i = ClaimSteps(q) THEN 1 ELSE IF i % 2 = 1 THEN 4 ELSE 2

\* the weighted sum of the pointwise convolution at the points 0 .. i
RECURSIVE ClaimWeighted(_, _, _)
ClaimWeighted(op, q, i) ==
    IF i < 0 THEN 0
    ELSE ClaimWeight(q, i) * ClaimPointwise(op, q, q.LowerLimit + i * Quarter)
            + ClaimWeighted(op, q, i - 1)

\* the integral of the pointwise convolution over [LowerLimit, UpperLimit] in
\* t, by Simpson's rule with steps of a quarter
ClaimQuadrature(op, q) ==
    TruncDiv(FMul(Quarter, ClaimWeighted(op, q, ClaimSteps(q))), 3)

\* v and w agree to ten percent of the larger one
ClaimNear(v, w) ==
    ClaimDistance(v, w) * 10 <= (IF Abs(v) >= Abs(w) THEN Abs(v) ELSE Abs(w))

\* C22: for sigma > 0 the integrated convolution over [L, U] equals the
\* integral over t in [L, U] of the pointwise convolution of the same
\* arguments, the factor 0.25 and dt = sigma*sqrt2*dx included (here to the
\* tenth that makes room for the quadrature and the fixed point).
C22_AsStated ==
    (/\ scall.called
     /\ scall.op \in {"Integrated_convoluted_exp_sinhcosh",
                      "Integrated_convoluted_exp_sincos"}
     /\ scall.x.sigma > 0
     /\ Finite(scall.ret)) =>
        ClaimNear(scall.ret, ClaimQuadrature(scall.op, scall.x))

(***************************************************************************)
(*              Properties of Update() against Evaluate()                  *)
(***************************************************************************)

\* the values that Evaluate returns for the event ev on an instance whose
\* tables were all derived from one parameter vector of the model
ClaimConsistent(ev) ==
    {Evaluate(Constructed(q, NaN), CPOf(B0sbar), ev).ret : q \in RacingVectors}

\* C23: nothing in the class keeps Update() and Evaluate() apart: while a
\* thread is inside the loop of Evaluate, an Update() that has entries left to
\* write can write the next one, and a thread can enter and go on with
\* Evaluate while Update() is between two entries.
C23_NoBarrier ==
    /\ (stale /\ Unwritten # {}) => ENABLED UpdateEntry
    /\ (stale /\ Unwritten = {}) => ENABLED UpdateEnd
    /\ rd["r1"].pc = "idle" => ENABLED EvaluateBeginWith("r1", RacingEvents)
    /\ (rd["r1"].pc = "loop" /\ rd["r1"].i < 10) => ENABLED EvaluateStep("r1")

\* a call of Evaluate that overlapped an Update() has summed its ten terms and
\* returned a value that no instance with tables derived from one parameter
\* vector returns for its event
C23_Witness ==
    /\ rd["r1"].pc = "done"
    /\ rd["r1"].op = "Evaluate"
    /\ rd["r1"].i = 10
    /\ Finite(rd["r1"].ret)
    /\ rd["r1"].ret > 0
    /\ rd["r1"].ret \notin ClaimConsistent(rd["r1"].ev)

\* the instance with the ten N_k that Update_NFactors derives from the
\* current parameters
ClaimDerivedN == Object(par, A, B, C, D, NFactorsOf(par))

\* C24: once every parameter change has been followed by Update(), an
\* Evaluate() that reaches the summation (A_par2 >= 0) reads exactly the ten
\* N_k that Update_NFactors derives from the current parameters, and where a
\* guarded Update (A_par2 < 0) has left N as it was, Evaluate returns 0.0
\* before it reads N.
C24_GuardsMatch ==
    ~stale =>
        /\ FGe(A_par2Of(par), 0) => N = NFactorsOf(par)
        /\ (call.evaluated /\ FGe(A_par2Of(par), 0)) =>
                /\ ~call.res.guarded
                /\ call.res = EvaluateBody(ClaimDerivedN, CPOf(B0sbar), call.ev)
        /\ (call.evaluated /\ FLt(A_par2Of(par), 0)) =>
                /\ call.res.guarded
                /\ call.res.ret = 0

\* Evaluate has returned 0.0 from its guard on an instance whose N a guarded
\* Update() has left at the values of the parameters before the change
C24_Witness ==
    /\ ~stale
    /\ call.evaluated
    /\ FLt(A_par2Of(par), 0)
    /\ call.res.guarded
    /\ call.res.ret = 0
    /\ N # NFactorsOf(par)
    /\ \A k \in K10 : N[k] # NaN

\* C25: a freshly constructed PhisSignal is ready: the constructor has called
\* Update(), so the tables are those of the parameters and an Evaluate()
\* that follows returns what it returns after an explicit Update(); the
\* instance leaves the ready state only when a parameter is changed.
C25_ReadyWhenConstructed ==
    /\ Ready
    /\ ~stale
    /\ [][/\ (~stale /\ call'.evaluated /\ ~call.evaluated) =>
                call'.res = Evaluate(Updated(This), CPOf(B0sbar), call'.ev)
          /\ (~stale /\ stale') => (par' # par /\ tables' = tables)
          /\ (Ready /\ ~Ready') => par' # par]_vars

\* Evaluate() has returned a positive value on an instance whose tables are
\* those the constructor left
C25_Witness ==
    /\ ~stale
    /\ call.evaluated
    /\ call.res.ret # NaN
    /\ call.res.ret > 0
    /\ \E g \in Indeterminate : This = Constructed(par, g)
    /\ call.res = Evaluate(Constructed(par, NaN), CPOf(B0sbar), call.ev)

(***************************************************************************)
(*              Properties of the clamp inside the knot range              *)
(***************************************************************************)

\* CSplineEval has returned for an argument inside the knot range
ClaimInsideKnots ==
    /\ scall.called
    /\ scall.op = "CSplineEval"
    /\ scall.x >= u[3]
    /\ scall.x < u[nKnots + 2]

\* C26: whenever NegativePart is true, xNegative is at or beyond the last
\* knot, and for every x in [first knot, last knot) CSplineEval(x) returns the
\* value of the cubic of the interval that contains x.
C26_AsStated ==
    (ClaimIncreasing /\ \A i \in KnotIdx : ClaimFiniteCubic(i)) =>
        /\ NegativePart => (xNegative # NaN /\ xNegative >= u[nKnots + 2])
        /\ ClaimInsideKnots =>
                scall.ret = ClaimCubic(ClaimKnot(scall.x), scall.x)

(***************************************************************************)
(*                   Properties of the tag 0                               *)
(***************************************************************************)

\* the arguments q give op a z that is not zero
ClaimNonZeroZ(op, q) ==
    IF op \in ClaimTrig
    THEN q.a # 0 \/ q.b # 0
    ELSE q.a # q.b /\ q.a # -q.b

\* C27: for tag = 0 neither branch is taken: each of the four convolutions
\* returns exactly 0 for finite arguments with sigma > 0 and a non-zero z,
\* and no cosh/cos or sinh/sin value.
C27_TagZero ==
    (/\ scall.called
     /\ scall.op \in ClaimOps
     /\ scall.x.tag = 0
     /\ scall.x.sigma > 0
     /\ ClaimNonZeroZ(scall.op, scall.x)) => scall.ret = 0

\* Convoluted_exp_sincos has returned 0 for tag = 0 on arguments whose cos
\* and sin values are finite and not 0
C27_Witness ==
    /\ ClaimConvolved("Convoluted_exp_sincos")
    /\ scall.x.tag = 0
    /\ scall.x.sigma > 0
    /\ ClaimNonZeroZ(scall.op, scall.x)
    /\ scall.ret = 0
    /\ Finite(Convolution(scall.op, [scall.x EXCEPT !.tag = 1]))
    /\ Convolution(scall.op, [scall.x EXCEPT !.tag = 1]) # 0
    /\ Finite(Convolution(scall.op, [scall.x EXCEPT !.tag = -1]))
    /\ Convolution(scall.op, [scall.x EXCEPT !.tag = -1]) # 0

=============================================================================
